---- MODULE Spec2Model ----
(***************************************************************************)
(* Model of the VSCode server lifecycle manager (src/src/lib.rs) and of    *)
(* the version resolver and fetch-and-extract pipeline                     *)
(* (src/src/download.rs).                                                  *)
(*                                                                         *)
(* One VscodeServerManager is shared by NumTasks tasks that call start,    *)
(* stop and is_running through &self; ensure_server and drop need          *)
(* exclusive access (&mut self / ownership), so they only run while no     *)
(* task is inside a call.  Child processes are genuine OS processes: they  *)
(* may exit at any time, and spawn, kill, wait and try_wait may fail.      *)
(*                                                                         *)
(* Spec        the lifecycle: start / stop / is_running / drop on a        *)
(*             manager that earlier ensure_server calls left in any of     *)
(*             their outcomes.                                             *)
(* SpecInstall ensure_server and download_server, step by step, on a       *)
(*             freshly built manager.                                      *)
(* SpecDownload download_server called directly, for any platform.         *)
(* SpecDetect  detect_version on every build target.                       *)
(* SpecArgs    start under every configuration.                            *)
(* SpecTeardown, SpecCancel  the lifecycle with a leaked, or a cancelled,  *)
(*             start future.                                               *)
(* SpecCrash   the pipeline with cancellation and a dying process.         *)
(* SpecFacade, SpecExit, SpecFair  TauriVscodeServer: its operations       *)
(*             called concurrently, its drop, and its operations fairly    *)
(*             scheduled.                                                  *)
(***************************************************************************)
EXTENDS Integers, Sequences, FiniteSets, TLC

\* ---------------------------------------------------------------- bounds
NumTasks == 2
MaxSpawn == 2
MaxChunks == 2
MaxDirs == 2

Tasks == 1..NumTasks
Commits == {"c1", "c2"}
None == "None"
NoTask == 0
Leaked == 0 - 2
Empty == 0
NoDir == 0 - 1

VARIABLES
    info,          \* VscodeServerManager.info: None or the resolved commit
    server_path,   \* VscodeServerManager.server_path: None or commit c for server_dir/c
    process,       \* contents of the Mutex: Empty or the index of the owned Child
    lock,          \* holder of the tokio Mutex around process: NoTask or a task
    children,      \* every child spawned so far: [alive, sig]
    pc,            \* position of each task inside start / stop / is_running
    child,         \* the local `child` a task took out of the slot in stop
    dropped,       \* the manager has been dropped
    burst,         \* history: the start calls overlapping on a Ready, idle manager
    fs,            \* server_dir/<commit>: "absent", "good" (bin/code-server present), "bad"
    archive,       \* commits c whose archive file server_dir/vscode-server-<c>.tar.gz exists
    tmp,           \* server_dir/<commit>.tmp: NoDir, or its number of top-level directories
    epc,           \* position of the caller inside ensure_server
    dl,            \* the running download_server call: [pc, commit, caller]
    reqlog,        \* network requests issued by the current (or last) pipeline call
    downloaded,    \* chunks written by the current (or last) download_server call
    dlCalled,      \* history: the current (or last) ensure_server called download_server
    lastOk,        \* history: commit of the last successful ensure_server, None after a
                   \* failed one or the deletion of an installed directory
    detail,        \* what the error returned last by the pipeline carries: [kind, n]
    status,        \* response.status() of the current (or last) download request, 0
                   \* while no response has arrived
    found,         \* found_dirs.len() of the last extract_tar_gz, NoDir if it did not count
    extractor,     \* the extractor the current (or last) download_server dispatched to
    ev,            \* the call that returned last: [op, ret]
    host,          \* the build target: [os, arch]
    detect,        \* a detect_version call on its own: [pc, listed, tags, latest_tag,
                   \* manifest, urls, ret]
    config,        \* VscodeServerManager.config: [port, host, args, disable_telemetry, connection_token]
    argv,          \* the argument list start built last
    manager,       \* holder of TauriVscodeServer.manager (the facade Mutex): NoTask or a task
    fpc,           \* position of each task inside a facade operation
    fret,          \* what each task's last facade operation returned
    tconfig        \* TauriVscodeServer.config: [auto_start, stop_on_exit]

mgrVars == <<info, server_path>>
lifeVars == <<process, lock, children, pc, child, dropped, burst>>
diskVars == <<fs, archive, tmp>>
pipeVars == <<epc, dl, reqlog, downloaded, dlCalled, lastOk, detail, status, found,
              extractor>>
extVars == <<host, detect, config, manager, fpc, fret, tconfig>>
vars == <<info, server_path, process, lock, children, pc, child, dropped, burst,
          fs, archive, tmp, epc, dl, reqlog, downloaded, dlCalled, lastOk, detail,
          status, found, extractor, ev, host, detect, config, argv, manager, fpc, fret, tconfig>>

NoEvent == [op |-> "none", ret |-> "none"]
Event(o, r) == [op |-> o, ret |-> r]
NoBurst == [on |-> FALSE, several |-> FALSE, spawned |-> 0, refused |-> FALSE, other |-> FALSE]
NoDownload == [pc |-> "idle", commit |-> None, caller |-> "none", platform |-> None]

PipelineIdle == epc = "idle" /\ dl.pc = "idle"

\* ------------------------------------------------------- child processes
NewChild == [alive |-> TRUE, sig |-> FALSE]

\* std::process::Child::kill: on success the signal is delivered and the
\* child terminates later (ChildExits); on failure (the OS denies the signal,
\* EPERM or access denied) nothing changes and the child keeps running
Kill(cs, c, ok) ==
    IF ok THEN [cs EXCEPT ![c].sig = TRUE] ELSE cs

ExitedMut(c) == TRUE

\* std::process::Child::wait returns, with a status or with an error, only
\* once the child is gone (waitpid blocks while the child lives and fails
\* with ECHILD only when there is no such child left)
Exited(c) == ~children[c].alive

TryWaitMut(c, ok) == "OkNone"

\* std::process::Child::try_wait: Ok(None) while the child lives; once it is
\* gone Ok(Some(status)), or Err when the status can no longer be collected
TryWait(c, ok) ==
    IF children[c].alive THEN "OkNone" ELSE IF ok THEN "OkSome" ELSE "Err"

NonTerminated == {c \in 1..Len(children) : children[c].alive}

\* ------------------------------------------------------------ filesystem
ExecutableExistsMut(p) == TRUE

\* get_executable_path: server_path/bin/code-server must exist
ExecutableExists(p) == fs[p] = "good"

\* ------------------------------------------------------------------ lock
LockFreeMut == TRUE

\* tokio::sync::Mutex::lock resolves only while nobody holds the mutex
LockFree == lock = NoTask

HandleOccupiedMut == FALSE

\* process_guard.is_some()
HandleOccupied == process # Empty

AllIdle == \A t \in Tasks : pc[t] = "idle"

\* the manager can start: install path known and executable on disk
Ready == server_path # None /\ fs[server_path] = "good"

\* -------------------------------------------------------------- platform
Platforms ==
    {"LinuxX64", "LinuxArm64", "LinuxArmhf", "DarwinX64", "DarwinArm64", "Win32X64"}

Unsupported == "Unsupported"

\* build targets: target_os and target_arch
Hosts == [os : {"linux", "macos", "windows", "freebsd"},
          arch : {"x86_64", "aarch64", "arm"}]

LinuxHost == [os |-> "linux", arch |-> "x86_64"]

\* Platform::current on a build for target h
current(h) ==
    IF h.os = "linux" /\ h.arch = "x86_64" THEN "LinuxX64"
    ELSE IF h.os = "linux" /\ h.arch = "aarch64" THEN "LinuxArm64"
    ELSE IF h.os = "linux" /\ h.arch = "arm" THEN "LinuxArmhf"
    ELSE IF h.os = "macos" /\ h.arch = "x86_64" THEN "DarwinX64"
    ELSE IF h.os = "macos" /\ h.arch = "aarch64" THEN "DarwinArm64"
    ELSE IF h.os = "windows" /\ h.arch = "x86_64" THEN "Win32X64"
    ELSE Unsupported

server_flavor(p) ==
    CASE p = "LinuxX64" -> "server-linux-x64"
      [] p = "LinuxArm64" -> "server-linux-arm64"
      [] p = "LinuxArmhf" -> "server-linux-armhf"
      [] p = "DarwinX64" -> "server-darwin-x64"
      [] p = "DarwinArm64" -> "server-darwin-arm64"
      [] p = "Win32X64" -> "server-win32-x64"

url_suffix(p) == IF p = "Win32X64" THEN "archive" ELSE "stable"

uses_zipMut(p) == p \in {"Win32X64", "DarwinX64"}

uses_zip(p) == p = "Win32X64"

\* download_server lines 146-152: the archive file of commit c for platform p
ArchiveName(c, p) == <<c, IF uses_zip(p) THEN "zip" ELSE "tar.gz">>

\* ------------------------------------------------------------- payloads
NoDetail == [kind |-> "none", n |-> 0]
Detail(k, i) == [kind |-> k, n |-> i]

\* ------------------------------------------------------- configuration
\* ServerConfig::default (server_dir left out: it is the directory fs,
\* archive and tmp describe)
\* Option<String>: None and Some(t)
NoToken == << >>
Some(t) == <<t>>

DefaultConfig ==
    [port |-> 8001, host |-> "127.0.0.1",
     args |-> <<"--accept-server-license-terms">>,
     disable_telemetry |-> TRUE, connection_token |-> NoToken]

MaxArgs == 2

Ports == {0, 8001, 65535}
HostNames == {"127.0.0.1", "0.0.0.0"}
Tokens == {"secret", ""}
ExtraArgs == {"--accept-server-license-terms", "--without-connection-token"}

\* the configurations a caller can hand to with_config
Configs ==
    [port : Ports, host : HostNames,
     args : UNION {[1..n -> ExtraArgs] : n \in 0..MaxArgs},
     disable_telemetry : BOOLEAN,
     connection_token : {NoToken} \cup {Some(t) : t \in Tokens}]

\* TauriConfig::default
DefaultTauri == [auto_start |-> TRUE, stop_on_exit |-> TRUE]

\* what detect_version returns: Ok(ServerInfo) or Err(kind)
NoInfo ==
    [monaco_api_version |-> None, vscode_commit |-> None, platform |-> None,
     download_url |-> None]
NoReturn == [kind |-> "none", info |-> NoInfo]
Err(e) == [kind |-> e, info |-> NoInfo]
Ok(i) == [kind |-> "Ok", info |-> i]

NoDetect ==
    [pc |-> "idle", listed |-> FALSE, tags |-> << >>, latest_tag |-> None,
     manifest |-> None, urls |-> << >>, ret |-> NoReturn]

\* no detect_version call on its own is in progress
DetectIdle == detect = NoDetect

\* the default configuration, and no argument list built yet
ConfigDefault == config = DefaultConfig /\ argv = << >>

\* the facade is not in use
FacadeIdle ==
    /\ manager = NoTask
    /\ fpc = [t \in Tasks |-> "idle"]
    /\ fret = [op |-> "none", ret |-> "none", info |-> None]
    /\ tconfig = DefaultTauri

\* the manager as with_config builds it, on a disk holding any installed
\* directories and no leftovers of the pipeline
Fresh ==
    /\ process = Empty
    /\ lock = NoTask
    /\ children = << >>
    /\ pc = [t \in Tasks |-> "idle"]
    /\ child = [t \in Tasks |-> 0]
    /\ dropped = FALSE
    /\ burst = NoBurst
    /\ fs \in [Commits -> {"absent", "good", "bad"}]
    /\ archive = {}
    /\ tmp = [c \in Commits |-> NoDir]
    /\ epc = "idle"
    /\ dl = NoDownload
    /\ reqlog = << >>
    /\ downloaded = 0
    /\ dlCalled = FALSE
    /\ lastOk = None
    /\ detail = NoDetail
    /\ status = 0
    /\ found = NoDir
    /\ extractor = None
    /\ ev = NoEvent

InitInstall ==
    /\ Fresh
    /\ host = LinuxHost
    /\ DetectIdle /\ ConfigDefault /\ FacadeIdle
    /\ info = None
    /\ server_path = None

\* what ensure_server calls can have left in the manager before the tasks
\* start: nothing, a ServerInfo without a path (the download failed), or both
EnsureOutcomes ==
    {<<None, None>>} \cup {<<c, None>> : c \in Commits} \cup (Commits \X Commits)

Init ==
    /\ Fresh
    /\ host = LinuxHost
    /\ DetectIdle /\ ConfigDefault /\ FacadeIdle
    /\ \E o \in EnsureOutcomes : info = o[1] /\ server_path = o[2]

\* ----------------------------------------------------------------- start
\* history: a burst opens with a start call on an idle, Ready manager whose
\* handle is empty, and lasts while only start calls are in progress
StartCallBurst ==
    IF burst.on /\ ~AllIdle THEN [burst EXCEPT !.several = TRUE]
    ELSE IF AllIdle /\ lock = NoTask /\ process = Empty /\ Ready
      THEN [NoBurst EXCEPT !.on = TRUE]
    ELSE NoBurst

StartCall(t) ==
    /\ ~dropped
    /\ pc[t] = "idle"
    /\ pc' = [pc EXCEPT ![t] = "start_lock"]
    /\ burst' = StartCallBurst
    /\ UNCHANGED <<mgrVars, process, lock, children, child, dropped, ev, diskVars, pipeVars, extVars, argv>>

StartLock(t) ==
    /\ pc[t] = "start_lock"
    /\ LockFree
    /\ lock' = t
    /\ pc' = [pc EXCEPT ![t] = "start_body"]
    /\ UNCHANGED <<mgrVars, process, children, child, dropped, burst, ev, diskVars, pipeVars, extVars, argv>>

StartFailMut(t, err) ==
    /\ lock' = NoTask
    /\ pc' = [pc EXCEPT ![t] = "idle"]
    /\ ev' = Event("start", err)
    /\ burst' = IF ~burst.on \/ err = "AlreadyRunning" THEN burst
                ELSE IF err = "StartFailed" THEN [burst EXCEPT !.refused = TRUE]
                ELSE [burst EXCEPT !.other = TRUE]
    /\ info' = None
    /\ UNCHANGED <<server_path, process, children, child, dropped, diskVars, pipeVars, extVars>>

\* a start that returns an error: the guard is dropped, nothing else changes
StartFail(t, err) ==
    /\ lock' = NoTask
    /\ pc' = [pc EXCEPT ![t] = "idle"]
    /\ ev' = Event("start", err)
    /\ burst' = IF ~burst.on \/ err = "AlreadyRunning" THEN burst
                ELSE IF err = "StartFailed" THEN [burst EXCEPT !.refused = TRUE]
                ELSE [burst EXCEPT !.other = TRUE]
    /\ UNCHANGED <<mgrVars, process, children, child, dropped, diskVars, pipeVars, extVars>>

TokenArgsMut(tok) ==
    IF tok = NoToken THEN << >> ELSE <<"--connection-token", tok[1]>>

\* lines 272-279: the match on config.connection_token
TokenArgs(tok) ==
    IF tok = NoToken THEN <<"--without-connection-token">>
    ELSE <<"--connection-token", tok[1]>>

\* lines 262-283: the arguments given to the Command, in order
CommandArgs(cfg) ==
    <<"--port", ToString(cfg.port), "--host", cfg.host>>
        \o (IF cfg.disable_telemetry THEN <<"--disable-telemetry">> ELSE << >>)
        \o TokenArgs(cfg.connection_token)
        \o cfg.args

\* lines 253-289: the checks, the command being built, the spawn, and the
\* handle being stored
StartBody(t) ==
    /\ pc[t] = "start_body"
    /\ IF HandleOccupied
         THEN StartFail(t, "AlreadyRunning") /\ UNCHANGED argv
       ELSE IF server_path = None
         THEN StartFail(t, "ServerNotFound") /\ UNCHANGED argv
       ELSE IF ~ExecutableExists(server_path)
         THEN StartFail(t, "ServerNotFound") /\ UNCHANGED argv
       ELSE \E spawnOk \in {ok \in BOOLEAN : ok => Len(children) < MaxSpawn} :
              /\ argv' = CommandArgs(config)
              /\ IF ~spawnOk
                THEN StartFail(t, "StartFailed")
                ELSE /\ children' = Append(children, NewChild)
                     /\ process' = Len(children) + 1
                     /\ pc' = [pc EXCEPT ![t] = "start_sleep"]
                     /\ burst' = IF burst.on
                                   THEN [burst EXCEPT !.spawned = burst.spawned + 1]
                                   ELSE burst
                     /\ UNCHANGED <<mgrVars, lock, child, dropped, ev, diskVars, pipeVars, extVars>>

\* the two-second sleep ends, Ok(()) is returned and the guard dropped
StartReturn(t) ==
    /\ pc[t] = "start_sleep"
    /\ lock' = NoTask
    /\ pc' = [pc EXCEPT ![t] = "idle"]
    /\ ev' = Event("start", "Ok")
    /\ UNCHANGED <<mgrVars, process, children, child, dropped, burst, diskVars, pipeVars, extVars, argv>>

\* ------------------------------------------------------------------ stop
StopCall(t) ==
    /\ ~dropped
    /\ pc[t] = "idle"
    /\ pc' = [pc EXCEPT ![t] = "stop_lock"]
    /\ burst' = NoBurst
    /\ UNCHANGED <<mgrVars, process, lock, children, child, dropped, ev, diskVars, pipeVars, extVars, argv>>

StopLock(t) ==
    /\ pc[t] = "stop_lock"
    /\ LockFree
    /\ lock' = t
    /\ pc' = [pc EXCEPT ![t] = "stop_body"]
    /\ UNCHANGED <<mgrVars, process, children, child, dropped, burst, ev, diskVars, pipeVars, extVars, argv>>

StopNotRunningMut(t) ==
    /\ lock' = NoTask
    /\ pc' = [pc EXCEPT ![t] = "idle"]
    /\ ev' = Event("stop", "Ok")
    /\ UNCHANGED <<process, children, child>>

\* the else branch of stop: nothing was in the slot
StopNotRunning(t) ==
    /\ lock' = NoTask
    /\ pc' = [pc EXCEPT ![t] = "idle"]
    /\ ev' = Event("stop", "NotRunning")
    /\ UNCHANGED <<process, children, child>>

TakeMut(p) == p

\* Option::take: what is left in the slot once its content p is moved out
Take(p) == Empty

\* process_guard.take(), then child.kill()?
StopBody(t) ==
    /\ pc[t] = "stop_body"
    /\ IF process = Empty
         THEN StopNotRunning(t)
         ELSE \E killOk \in BOOLEAN :
              /\ process' = Take(process)
              /\ children' = Kill(children, process, killOk)
              /\ IF killOk
                   THEN /\ child' = [child EXCEPT ![t] = process]
                        /\ pc' = [pc EXCEPT ![t] = "stop_wait"]
                        /\ UNCHANGED <<lock, ev>>
                   ELSE /\ lock' = NoTask
                        /\ pc' = [pc EXCEPT ![t] = "idle"]
                        /\ ev' = Event("stop", "Io")
                        /\ UNCHANGED child
    /\ UNCHANGED <<mgrVars, dropped, burst, diskVars, pipeVars, extVars, argv>>

\* child.wait()?: returns once the child is gone, with Ok or with an error
StopWait(t) ==
    /\ pc[t] = "stop_wait"
    /\ Exited(child[t])
    /\ \E waitOk \in BOOLEAN : ev' = Event("stop", IF waitOk THEN "Ok" ELSE "Io")
    /\ lock' = NoTask
    /\ child' = [child EXCEPT ![t] = 0]
    /\ pc' = [pc EXCEPT ![t] = "idle"]
    /\ UNCHANGED <<mgrVars, process, children, dropped, burst, diskVars, pipeVars, extVars, argv>>

\* ------------------------------------------------------------ is_running
IsRunningCall(t) ==
    /\ ~dropped
    /\ pc[t] = "idle"
    /\ pc' = [pc EXCEPT ![t] = "isrun_lock"]
    /\ burst' = NoBurst
    /\ UNCHANGED <<mgrVars, process, lock, children, child, dropped, ev, diskVars, pipeVars, extVars, argv>>

IsRunningLock(t) ==
    /\ pc[t] = "isrun_lock"
    /\ LockFree
    /\ lock' = t
    /\ pc' = [pc EXCEPT ![t] = "isrun_body"]
    /\ UNCHANGED <<mgrVars, process, children, child, dropped, burst, ev, diskVars, pipeVars, extVars, argv>>

IsRunningBody(t) ==
    /\ pc[t] = "isrun_body"
    /\ IF process = Empty
         THEN /\ ev' = Event("is_running", "false")
              /\ UNCHANGED process
         ELSE \E ok \in BOOLEAN :
              IF TryWait(process, ok) = "OkNone"
                THEN /\ ev' = Event("is_running", "true")
                     /\ UNCHANGED process
                ELSE /\ process' = Empty
                     /\ ev' = Event("is_running", "false")
    /\ lock' = NoTask
    /\ pc' = [pc EXCEPT ![t] = "idle"]
    /\ UNCHANGED <<mgrVars, children, child, dropped, burst, diskVars, pipeVars, extVars, argv>>

\* ------------------------------------------------------------------ drop
TryLockMut == TRUE

\* Mutex::try_lock: succeeds exactly when nobody holds the mutex, and never
\* waits
TryLock == lock = NoTask

\* Drop for VscodeServerManager: try_lock, take, kill whose result is
\* ignored, no wait.  The event tells which way it went.
Drop ==
    /\ ~dropped
    /\ AllIdle
    /\ PipelineIdle
    /\ dropped' = TRUE
    /\ IF TryLock /\ process # Empty
         THEN \E killOk \in BOOLEAN :
                /\ process' = Empty
                /\ children' = Kill(children, process, killOk)
                /\ ev' = Event("drop", IF killOk THEN "killed" ELSE "kill_failed")
         ELSE /\ UNCHANGED <<process, children>>
              /\ ev' = Event("drop", IF TryLock THEN "empty" ELSE "skipped")
    /\ burst' = NoBurst
    /\ UNCHANGED <<mgrVars, lock, pc, child, diskVars, pipeVars, extVars, argv>>

\* a caller leaks (std::mem::forget) a start future suspended in its
\* two-second sleep: the call never resumes and its guard is never dropped
Forget(t) ==
    /\ pc[t] = "start_sleep"
    /\ lock = t
    /\ lock' = Leaked
    /\ pc' = [pc EXCEPT ![t] = "idle"]
    /\ burst' = NoBurst
    /\ UNCHANGED <<mgrVars, process, children, child, dropped, ev, diskVars, pipeVars,
                   extVars, argv>>

DropGuardMut(t) == lock

\* the future of task t is dropped: a MutexGuard it owns is dropped with it
DropGuard(t) == IF lock = t THEN NoTask ELSE lock

\* the caller drops the future of a start call suspended at
\* self.process.lock().await or in the two-second sleep.  Its locals go, the
\* guard among them; what was stored in the slot stays.
StartCancel(t) ==
    /\ pc[t] \in {"start_lock", "start_sleep"}
    /\ lock' = DropGuard(t)
    /\ pc' = [pc EXCEPT ![t] = "idle"]
    /\ ev' = Event("start", IF pc[t] = "start_sleep" THEN "CancelledInSleep"
                                                    ELSE "CancelledAtLock")
    /\ burst' = NoBurst
    /\ UNCHANGED <<mgrVars, process, children, child, dropped, diskVars, pipeVars,
                   extVars, argv>>

\* ----------------------------------------------------------- environment
\* a child terminates: on its own, or after a signal
ChildExits(c) ==
    /\ c \in NonTerminated
    /\ children' = [children EXCEPT ![c].alive = FALSE]
    /\ UNCHANGED <<mgrVars, process, lock, pc, child, dropped, burst, ev, diskVars, pipeVars, extVars, argv>>

\* an outside actor removes an installed server directory
ExternalDelete(c) ==
    /\ fs[c] # "absent"
    /\ fs' = [fs EXCEPT ![c] = "absent"]
    /\ lastOk' = None
    /\ burst' = NoBurst
    /\ UNCHANGED <<mgrVars, process, lock, children, pc, child, dropped,
                   archive, tmp, epc, dl, reqlog, downloaded, dlCalled, detail,
                   status, found, extractor, ev, extVars, argv>>

\* -------------------------------------------------------- ensure_server
DirExistsMut(c) == FALSE

\* Path::exists on server_dir/<commit>
DirExists(c) == fs[c] # "absent"

\* lib.rs line 226: server_path.exists()
InstallPresent(c) == DirExists(c)

\* fs::create_dir_all(target_dir) cannot fail when target_dir is already
\* there, which anything inside it shows
TargetDirExists ==
    \/ \E c \in Commits : fs[c] # "absent" \/ tmp[c] # NoDir
    \/ archive # {}

MkdirOutcomes == IF TargetDirExists THEN {TRUE} ELSE BOOLEAN

\* ensure_server returns r, an error carrying d
EnsureReturn(r, d) ==
    /\ epc' = "idle"
    /\ ev' = Event("ensure_server", r)
    /\ detail' = d
    /\ lastOk' = IF r = "Ok" THEN info' ELSE None

DownloadStartMut(c, mkdirOk) ==
    IF ~mkdirOk THEN [pc |-> "idle", ret |-> "Io", req |-> << >>]
    ELSE [pc |-> "get", ret |-> "none", req |-> <<"download">>]

\* download_server lines 122-137, which hold no suspension point:
\* create_dir_all, the exists check, and the GET request being sent.
\* The result is where the call stands afterwards.
DownloadStart(c, mkdirOk) ==
    IF ~mkdirOk THEN [pc |-> "idle", ret |-> "Io", req |-> << >>]
    ELSE IF DirExists(c) THEN [pc |-> "idle", ret |-> "Ok", req |-> << >>]
    ELSE [pc |-> "get", ret |-> "none", req |-> <<"download">>]

EnsureCallMut ==
    /\ ~dropped
    /\ AllIdle
    /\ PipelineIdle
    /\ epc' = IF info = None THEN "tags" ELSE "manifest"
    /\ reqlog' = IF info = None THEN <<"tags">> ELSE <<"manifest">>
    /\ downloaded' = 0
    /\ dlCalled' = FALSE
    /\ detail' = NoDetail
    /\ status' = 0
    /\ found' = NoDir
    /\ extractor' = None
    /\ UNCHANGED <<mgrVars, lifeVars, extVars, argv, diskVars, dl, lastOk, ev>>

\* ensure_server is called; detect_version sends the tag-list request
EnsureCall ==
    /\ ~dropped
    /\ AllIdle
    /\ PipelineIdle
    /\ epc' = "tags"
    /\ reqlog' = <<"tags">>
    /\ downloaded' = 0
    /\ dlCalled' = FALSE
    /\ detail' = NoDetail
    /\ status' = 0
    /\ found' = NoDir
    /\ extractor' = None
    /\ UNCHANGED <<mgrVars, lifeVars, extVars, argv, diskVars, dl, lastOk, ev>>

\* the tag list answers: a transport or decoding error, an empty list, or a
\* list whose first tag is taken; then the manifest request is sent
EnsureTags ==
    /\ epc = "tags"
    /\ \E resp \in {"error", "empty", "tags"} :
         IF resp = "tags"
           THEN /\ epc' = "manifest"
                /\ reqlog' = Append(reqlog, "manifest")
                /\ UNCHANGED <<lastOk, detail, ev>>
           ELSE /\ EnsureReturn(IF resp = "error" THEN "Network"
                                                  ELSE "VersionDetectionFailed",
                                NoDetail)
                /\ UNCHANGED reqlog
    /\ UNCHANGED <<mgrVars, lifeVars, extVars, argv, diskVars, dl, downloaded, dlCalled, status, found, extractor>>

\* the manifest answers and Platform::current is consulted; on success info
\* is cached, the commit directory is checked and download_server is called
\* when it is absent
EnsureManifest ==
    /\ epc = "manifest"
    /\ \E resp \in {"error"} \cup Commits :
         IF resp = "error"
           THEN /\ EnsureReturn("Network", NoDetail)
                /\ UNCHANGED <<mgrVars, dl, reqlog, dlCalled>>
         ELSE IF current(host) = Unsupported
           THEN /\ EnsureReturn("UnsupportedPlatform", NoDetail)
                /\ UNCHANGED <<mgrVars, dl, reqlog, dlCalled>>
           ELSE /\ info' = resp
                /\ IF InstallPresent(resp)
                     THEN /\ server_path' = resp
                          /\ EnsureReturn("Ok", NoDetail)
                          /\ UNCHANGED <<dl, reqlog, dlCalled>>
                     ELSE \E mkdirOk \in MkdirOutcomes :
                          LET d == DownloadStart(resp, mkdirOk) IN
                          /\ dlCalled' = TRUE
                          /\ reqlog' = reqlog \o d.req
                          /\ IF d.pc = "idle"
                               THEN /\ server_path' =
                                         IF d.ret = "Ok" THEN resp ELSE server_path
                                    /\ EnsureReturn(d.ret, NoDetail)
                                    /\ UNCHANGED dl
                               ELSE /\ epc' = "download"
                                    /\ dl' = [pc |-> d.pc, commit |-> resp,
                                              caller |-> "ensure",
                                              platform |-> current(host)]
                                    /\ UNCHANGED <<server_path, lastOk, detail, ev>>
    /\ UNCHANGED <<lifeVars, extVars, argv, diskVars, downloaded, status, found, extractor>>

\* ------------------------------------------------------ download_server
\* download_server returns r (an error carrying d) to its caller;
\* ensure_server sets server_path on success and propagates an error
\* unchanged (lib.rs lines 227-231)
DownloadReturn(r, d) ==
    /\ dl' = NoDownload
    /\ IF dl.caller = "ensure"
         THEN /\ info' = info
              /\ server_path' = IF r = "Ok" THEN dl.commit ELSE server_path
              /\ EnsureReturn(r, d)
         ELSE /\ ev' = Event("download_server", r)
              /\ detail' = d
              /\ UNCHANGED <<mgrVars, epc, lastOk>>

\* download_server is called directly with a ServerInfo for commit c and
\* platform p
DownloadCall(c, p) ==
    /\ AllIdle
    /\ PipelineIdle
    /\ dl' = [pc |-> "begin", commit |-> c, caller |-> "direct", platform |-> p]
    /\ reqlog' = << >>
    /\ downloaded' = 0
    /\ detail' = NoDetail
    /\ status' = 0
    /\ found' = NoDir
    /\ extractor' = None
    /\ UNCHANGED <<mgrVars, lifeVars, extVars, argv, diskVars, epc, dlCalled, lastOk, ev>>

\* the directly called download_server runs up to its first suspension point
DownloadBegin ==
    /\ dl.pc = "begin"
    /\ \E mkdirOk \in MkdirOutcomes :
         LET d == DownloadStart(dl.commit, mkdirOk) IN
         /\ reqlog' = reqlog \o d.req
         /\ IF d.pc = "idle"
              THEN DownloadReturn(d.ret, NoDetail)
              ELSE /\ dl' = [dl EXCEPT !.pc = d.pc]
                   /\ UNCHANGED <<mgrVars, epc, lastOk, detail, ev>>
    /\ UNCHANGED <<lifeVars, extVars, argv, diskVars, downloaded, dlCalled, status, found, extractor>>

\* HTTP status codes the download host answers with
Statuses == {200, 404, 503}

\* StatusCode::is_success
is_success(st) == st \in 200..299

StatusCheckMut(st) ==
    IF is_success(st) THEN [ret |-> "Ok", detail |-> NoDetail]
    ELSE [ret |-> "DownloadFailed", detail |-> NoDetail]

\* download_server lines 139-143: the check of response.status()
StatusCheck(st) ==
    IF is_success(st) THEN [ret |-> "Ok", detail |-> NoDetail]
    ELSE [ret |-> "DownloadFailed", detail |-> Detail("status", st)]

\* the download request answers: transport error, or a response with a
\* status; after a success status the archive file is created
DownloadResponse ==
    /\ dl.pc = "get"
    /\ \E sendOk \in BOOLEAN :
         IF ~sendOk
           THEN /\ DownloadReturn("Network", NoDetail)
                /\ UNCHANGED <<archive, status>>
           ELSE \E resp \in Statuses :
                /\ status' = resp
                /\ IF StatusCheck(resp).ret # "Ok"
                  THEN /\ DownloadReturn(StatusCheck(resp).ret, StatusCheck(resp).detail)
                       /\ UNCHANGED archive
                  ELSE \E createOk \in BOOLEAN :
                       IF createOk
                         THEN /\ archive' = archive \cup {ArchiveName(dl.commit, dl.platform)}
                              /\ dl' = [dl EXCEPT !.pc = "stream"]
                              /\ UNCHANGED <<mgrVars, epc, lastOk, detail, ev>>
                         ELSE /\ DownloadReturn("Io", NoDetail)
                              /\ UNCHANGED archive
    /\ UNCHANGED <<lifeVars, extVars, argv, fs, tmp, reqlog, downloaded, dlCalled, found, extractor>>

\* one chunk of the body arrives and is written to the archive file
DownloadChunk ==
    /\ dl.pc = "stream"
    /\ downloaded < MaxChunks
    /\ downloaded' = downloaded + 1
    /\ UNCHANGED <<mgrVars, lifeVars, extVars, argv, diskVars, epc, dl, reqlog, dlCalled,
                   lastOk, detail, status, found, extractor, ev>>

\* the stream fails (transport) or a write to the archive file fails
DownloadStreamError ==
    /\ dl.pc = "stream"
    /\ \E err \in {"Network", "Io"} : DownloadReturn(err, NoDetail)
    /\ UNCHANGED <<lifeVars, extVars, argv, diskVars, reqlog, downloaded, dlCalled, status, found, extractor>>

\* what an extraction hands back: its result, the error's payload, the
\* count it made of top-level directories, and the disk afterwards
Extracted(r, d, n, f, t) ==
    [ret |-> r, detail |-> d, found |-> n, fs |-> f, tmp |-> t]

CountCheckMut(n) == n >= 1

\* extract_tar_gz line 226: found_dirs.len() != 1 is refused
CountCheck(n) == n = 1

\* extract_tar_gz on the archive of commit c.  x gives what the filesystem
\* and the archive do: x.fail is the first call that fails ("open", "mktmp",
\* "unpack", "readdir", "rename") or "none", x.found the number of top-level
\* directories in the temporary directory after unpacking, x.content what the
\* renamed directory holds, x.rmtmp whether remove_dir_all succeeds.
ExtractTarGz(c, x) ==
    LET unpacked == [tmp EXCEPT ![c] = x.found] IN
    IF x.fail \in {"open", "mktmp"}
      THEN Extracted("Io", NoDetail, NoDir, fs, tmp)
    ELSE IF x.fail = "unpack"
      THEN Extracted("ExtractionFailed", Detail("unpack", 0), NoDir, fs, unpacked)
    ELSE IF x.fail = "readdir"
      THEN Extracted("Io", NoDetail, NoDir, fs, unpacked)
    ELSE IF ~CountCheck(x.found)
      THEN Extracted("ExtractionFailed", Detail("found", x.found), x.found, fs, unpacked)
    ELSE IF x.fail = "rename"
      THEN Extracted("Io", NoDetail, x.found, fs, unpacked)
    ELSE Extracted("Ok", NoDetail, x.found,
                   [fs EXCEPT ![c] = x.content],
                   [tmp EXCEPT ![c] = IF x.rmtmp THEN NoDir ELSE 0])

\* directories a previous attempt left in the temporary directory stay there;
\* unpacking adds the archive's own top-level directories
StaleDirs(c) == IF tmp[c] = NoDir THEN 0 ELSE tmp[c]

\* a field the extraction never gets to read has one value only
ExtractInputs(c) ==
    {x \in [fail : {"open", "mktmp", "unpack", "readdir", "rename", "none"},
            rmtmp : BOOLEAN, found : StaleDirs(c)..MaxDirs, content : {"good", "bad"}] :
       /\ x.fail \in {"open", "mktmp"} => x.found = StaleDirs(c)
       /\ (x.fail \notin {"rename", "none"} \/ x.found # 1) => x.rmtmp
       /\ (x.fail # "none" \/ x.found # 1) => x.content = "good"}

\* extract_zip on the archive of commit c.  On a windows build z.fail is the
\* first call that fails ("open", "new" for ZipArchive::new, "mkdir" for
\* create_dir_all(target_dir), "extract") or "none", and z.content what
\* target_dir holds once extract has written into it; on any other build the
\* function refuses.
ExtractZip(c, z) ==
    IF host.os # "windows"
      THEN Extracted("ExtractionFailed", Detail("unsupported", 0), NoDir, fs, tmp)
    ELSE IF z.fail = "open"
      THEN Extracted("Io", NoDetail, NoDir, fs, tmp)
    ELSE IF z.fail = "new"
      THEN Extracted("ExtractionFailed", Detail("zip", 0), NoDir, fs, tmp)
    ELSE IF z.fail = "mkdir"
      THEN Extracted("Io", NoDetail, NoDir, fs, tmp)
    ELSE IF z.fail = "extract"
      THEN Extracted("ExtractionFailed", Detail("zip", 0), NoDir,
                     [fs EXCEPT ![c] = z.content], tmp)
    ELSE Extracted("Ok", NoDetail, NoDir, [fs EXCEPT ![c] = z.content], tmp)

ZipInputs ==
    {z \in [fail : {"open", "new", "mkdir", "extract", "none"},
            content : {"good", "bad"}] :
       z.fail \in {"open", "new", "mkdir"} => z.content = "good"}

\* what the archive and the filesystem can do to the extractor of platform p
ArchiveInputs(c, p) == IF uses_zip(p) THEN ZipInputs ELSE ExtractInputs(c)

\* extract_archive dispatches on platform.uses_zip(); the result records
\* which extractor ran
extract_archive(c, p, x) ==
    IF uses_zip(p)
      THEN [extractor |-> "extract_zip", out |-> ExtractZip(c, x)]
      ELSE [extractor |-> "extract_tar_gz", out |-> ExtractTarGz(c, x)]

RemoveFileMut(a, name) == a

\* fs::remove_file(archive_path) succeeding: the archive files a without name
RemoveFile(a, name) == a \ {name}

\* the stream ends: extract_archive, then remove_file on the archive
DownloadFinish ==
    /\ dl.pc = "stream"
    /\ \E x \in ArchiveInputs(dl.commit, dl.platform) :
         LET e == extract_archive(dl.commit, dl.platform, x).out IN
         /\ extractor' = extract_archive(dl.commit, dl.platform, x).extractor
         /\ fs' = e.fs
         /\ tmp' = e.tmp
         /\ found' = e.found
         /\ IF e.ret # "Ok"
              THEN /\ DownloadReturn(e.ret, e.detail)
                   /\ UNCHANGED archive
              ELSE \E rmOk \in BOOLEAN :
                   IF rmOk
                     THEN /\ archive' = RemoveFile(archive, ArchiveName(dl.commit, dl.platform))
                          /\ DownloadReturn("Ok", NoDetail)
                     ELSE /\ DownloadReturn("Io", NoDetail)
                          /\ UNCHANGED archive
    /\ UNCHANGED <<lifeVars, extVars, argv, reqlog, downloaded, dlCalled, status>>

\* ------------------------------------------- cancellation and crashes
\* the caller drops the future of the running ensure_server or
\* download_server at one of its suspension points: the request of
\* detect_version, the download request, or the next chunk of the body.
\* What is on disk and in the manager stays as it is.
Cancel ==
    /\ epc \in {"tags", "manifest"} \/ dl.pc \in {"get", "stream"}
    /\ epc' = "idle"
    /\ dl' = NoDownload
    /\ ev' = Event(IF epc # "idle" THEN "ensure_server" ELSE "download_server",
                   "Cancelled")
    /\ lastOk' = None
    /\ detail' = NoDetail
    /\ UNCHANGED <<mgrVars, lifeVars, extVars, argv, diskVars, reqlog, downloaded,
                   dlCalled, status, found, extractor>>

\* how far extract_tar_gz and the clean-up after it got when the process
\* died: still streaming, unpacking into the temporary directory, past the
\* rename, past remove_dir_all, past remove_file
CrashPoints == {"stream", "unpack", "rename", "rmtmp", "rmfile"}

CrashDiskMut(c, a, k, n, content) ==
    [fs |-> IF k = "stream" THEN fs ELSE [fs EXCEPT ![c] = content],
     tmp |-> IF k = "stream" THEN tmp ELSE [tmp EXCEPT ![c] = NoDir],
     archive |-> IF k = "rmfile" THEN archive \ {a} ELSE archive,
     found |-> IF k \in {"stream", "unpack"} THEN NoDir ELSE n]

\* the disk a process leaves that dies at point k of the download_server
\* for commit c with archive file a; n is the number of top-level
\* directories the temporary directory holds by then, content what the
\* unpacked directory holds
CrashDisk(c, a, k, n, content) ==
    [fs |-> IF k \in {"stream", "unpack"} THEN fs ELSE [fs EXCEPT ![c] = content],
     tmp |-> IF k = "stream" THEN tmp
             ELSE IF k = "unpack" THEN [tmp EXCEPT ![c] = n]
             ELSE IF k = "rename" THEN [tmp EXCEPT ![c] = 0]
             ELSE [tmp EXCEPT ![c] = NoDir],
     archive |-> IF k = "rmfile" THEN archive \ {a} ELSE archive,
     found |-> IF k \in {"stream", "unpack"} THEN NoDir ELSE n]

\* the process dies while the pipeline runs and is started again: the new
\* manager knows nothing, the disk is what the dead process left.  The
\* rename is reached only after the unpack completed and the count passed
\* the check of line 226.
Crash ==
    /\ ~PipelineIdle
    /\ IF dl.pc = "stream"
         THEN \E k \in CrashPoints, content \in {"good", "bad"},
                 n \in StaleDirs(dl.commit)..MaxDirs :
                /\ k \in {"rename", "rmtmp", "rmfile"} => CountCheck(n)
                /\ k \in {"stream", "unpack"} => content = "good"
                /\ k = "stream" => n = StaleDirs(dl.commit)
                /\ LET d == CrashDisk(dl.commit, ArchiveName(dl.commit, dl.platform),
                                      k, n, content) IN
                     /\ fs' = d.fs
                     /\ tmp' = d.tmp
                     /\ archive' = d.archive
                     /\ found' = d.found
                /\ extractor' = IF k = "stream" THEN extractor ELSE "extract_tar_gz"
         ELSE UNCHANGED <<diskVars, found, extractor>>
    /\ info' = None
    /\ server_path' = None
    /\ epc' = "idle"
    /\ dl' = NoDownload
    /\ ev' = Event(IF epc # "idle" THEN "ensure_server" ELSE "download_server",
                   "Crashed")
    /\ lastOk' = None
    /\ detail' = NoDetail
    /\ UNCHANGED <<lifeVars, extVars, argv, reqlog, downloaded, dlCalled, status>>

\* ------------------------------------------------------- detect_version
MaxTags == 2

TagNames == {"v1.0.0", "v2.3.0"}

\* the tag lists the repository-tag API can answer with, in its own order
TagLists == UNION {[1..n -> TagNames] : n \in 0..MaxTags}

\* the two requests of detect_version
TagsRequest == [api |-> "tags", tag |-> None]
ManifestRequest(t) == [api |-> "package.json", tag |-> t]

UpdateHost == "https://update.code.visualstudio.com"

FirstTagMut(list) == list[Len(list)]

\* tags.first(), taken after the emptiness check of lines 68-71
FirstTag(list) == list[1]

TransportErrorMut(d) ==
    IF Len(d.urls) < 3 THEN [d EXCEPT !.urls = Append(@, d.urls[Len(d.urls)])]
    ELSE [d EXCEPT !.pc = "idle", !.ret = Err("Network")]

\* .send().await? / .json().await?: a transport or decoding error ends the
\* call at once
TransportError(d) == [d EXCEPT !.pc = "idle", !.ret = Err("Network")]

DownloadUrlMut(c, p) ==
    UpdateHost \o "/commit:" \o c \o "/" \o server_flavor(p) \o "/" \o "stable"

\* the format! of lines 88-93
DownloadUrl(c, p) ==
    "https://update.code.visualstudio.com/commit:" \o c \o "/" \o server_flavor(p)
        \o "/" \o url_suffix(p)

\* detect_version is called; the tag-list request is sent
DetectCall ==
    /\ detect.pc = "idle"
    /\ detect' = [NoDetect EXCEPT !.pc = "tags", !.urls = <<TagsRequest>>]
    /\ UNCHANGED <<mgrVars, lifeVars, diskVars, pipeVars, ev, host, config, argv,
                   manager, fpc, fret, tconfig>>

\* the tag list answers; an empty list ends the call, otherwise the manifest
\* of the first tag is requested
DetectTags ==
    /\ detect.pc = "tags"
    /\ \E sendOk \in BOOLEAN :
         IF ~sendOk
           THEN /\ detect' = TransportError(detect)
                /\ ev' = IF detect'.pc = "idle" THEN Event("detect_version", "Network")
                                                ELSE ev
           ELSE \E list \in TagLists :
                IF list = << >>
                  THEN /\ detect' = [detect EXCEPT !.pc = "idle", !.listed = TRUE,
                                                   !.ret = Err("VersionDetectionFailed")]
                       /\ ev' = Event("detect_version", "VersionDetectionFailed")
                  ELSE /\ detect' = [detect EXCEPT
                                       !.pc = "manifest", !.listed = TRUE,
                                       !.tags = list,
                                       !.latest_tag = FirstTag(list),
                                       !.urls = Append(@, ManifestRequest(FirstTag(list)))]
                       /\ UNCHANGED ev
    /\ UNCHANGED <<mgrVars, lifeVars, diskVars, pipeVars, host, config, argv,
                   manager, fpc, fret, tconfig>>

\* the manifest answers with its config.vscode.commit; Platform::current is
\* consulted and the ServerInfo is built
DetectManifest ==
    /\ detect.pc = "manifest"
    /\ \E sendOk \in BOOLEAN :
         IF ~sendOk
           THEN /\ detect' = TransportError(detect)
                /\ ev' = IF detect'.pc = "idle" THEN Event("detect_version", "Network")
                                                ELSE ev
           ELSE \E c \in Commits :
                IF current(host) = Unsupported
                  THEN /\ detect' = [detect EXCEPT !.pc = "idle", !.manifest = c,
                                                   !.ret = Err("UnsupportedPlatform")]
                       /\ ev' = Event("detect_version", "UnsupportedPlatform")
                  ELSE /\ detect' = [detect EXCEPT
                                       !.pc = "idle", !.manifest = c,
                                       !.ret = Ok([monaco_api_version |-> detect.latest_tag,
                                                   vscode_commit |-> c,
                                                   platform |-> current(host),
                                                   download_url |->
                                                       DownloadUrl(c, current(host))])]
                       /\ ev' = Event("detect_version", "Ok")
    /\ UNCHANGED <<mgrVars, lifeVars, diskVars, pipeVars, host, config, argv,
                   manager, fpc, fret, tconfig>>

\* ---------------------------------------------------------------- facade
\* TauriVscodeServer: every operation goes through the Mutex around the
\* manager.  A task inside a facade operation drives the manager's own
\* actions (StartLock .. StartReturn, StopLock .. StopWait, EnsureTags ..)
\* while it holds that Mutex.

\* what the facade operation that returned last, o, returned: r, and the
\* ServerInfo i where it has one
FRet(o, r, i) == [op |-> o, ret |-> r, info |-> i]

ManagerFreeMut == TRUE

\* self.manager.lock().await resolves only while nobody holds the Mutex
ManagerFree == manager = NoTask

AutoStartMut(cfg) == TRUE

\* lib.rs line 469: if self.config.auto_start
AutoStart(cfg) == cfg.auto_start

\* VscodeServerManager::url
Url(cfg) == "http://" \o cfg.host \o ":" \o ToString(cfg.port)

\* manager.info().cloned().ok_or(ServerError::ServerNotFound)
InfoOrNotFound(o) ==
    IF info = None THEN FRet(o, "ServerNotFound", None) ELSE FRet(o, "Ok", info)

FacadeReturnMut(t, f) ==
    /\ manager' = manager
    /\ fpc' = [fpc EXCEPT ![t] = "idle"]
    /\ fret' = f

\* the facade operation of task t returns f and gives the Mutex back
FacadeReturn(t, f) ==
    /\ manager' = NoTask
    /\ fpc' = [fpc EXCEPT ![t] = "idle"]
    /\ fret' = f

\* task t, holding the Mutex, calls manager.start()
ManagerStart(t) ==
    /\ pc' = [pc EXCEPT ![t] = "start_lock"]
    /\ burst' = StartCallBurst

\* task t, holding the Mutex, calls manager.stop()
ManagerStop(t) ==
    /\ pc' = [pc EXCEPT ![t] = "stop_lock"]
    /\ burst' = NoBurst

InitializeCall(t) ==
    /\ ~dropped
    /\ fpc[t] = "idle"
    /\ fpc' = [fpc EXCEPT ![t] = "init_lock"]
    /\ UNCHANGED <<mgrVars, lifeVars, diskVars, pipeVars, ev, argv, host, detect,
                   config, manager, fret, tconfig>>

\* the Mutex is taken and ensure_server called: detect_version sends the
\* tag-list request
InitializeLock(t) ==
    /\ fpc[t] = "init_lock"
    /\ ManagerFree
    /\ manager' = t
    /\ fpc' = [fpc EXCEPT ![t] = "init_ensure"]
    /\ epc' = "tags"
    /\ reqlog' = <<"tags">>
    /\ downloaded' = 0
    /\ dlCalled' = FALSE
    /\ detail' = NoDetail
    /\ status' = 0
    /\ found' = NoDir
    /\ extractor' = None
    /\ UNCHANGED <<mgrVars, lifeVars, diskVars, dl, lastOk, ev, argv, host, detect,
                   config, fret, tconfig>>

\* ensure_server has returned: its error is returned, or start is called
\* when auto_start is set, or the ServerInfo is returned
InitializeEnsured(t) ==
    /\ fpc[t] = "init_ensure"
    /\ epc = "idle"
    /\ IF ev.ret # "Ok"
         THEN /\ FacadeReturn(t, FRet("initialize", ev.ret, None))
              /\ UNCHANGED <<pc, burst>>
       ELSE IF AutoStart(tconfig)
         THEN /\ ManagerStart(t)
              /\ fpc' = [fpc EXCEPT ![t] = "init_start"]
              /\ UNCHANGED <<manager, fret>>
         ELSE /\ FacadeReturn(t, InfoOrNotFound("initialize"))
              /\ UNCHANGED <<pc, burst>>
    /\ UNCHANGED <<mgrVars, process, lock, children, child, dropped, diskVars,
                   pipeVars, ev, argv, host, detect, config, tconfig>>

\* start has returned: its error is returned, or the ServerInfo
InitializeStarted(t) ==
    /\ fpc[t] = "init_start"
    /\ pc[t] = "idle"
    /\ FacadeReturn(t, IF ev.ret # "Ok" THEN FRet("initialize", ev.ret, None)
                                        ELSE InfoOrNotFound("initialize"))
    /\ UNCHANGED <<mgrVars, lifeVars, diskVars, pipeVars, ev, argv, host, detect,
                   config, tconfig>>

GetUrlCall(t) ==
    /\ ~dropped
    /\ fpc[t] = "idle"
    /\ fpc' = [fpc EXCEPT ![t] = "url_lock"]
    /\ UNCHANGED <<mgrVars, lifeVars, diskVars, pipeVars, ev, argv, host, detect,
                   config, manager, fret, tconfig>>

\* the Mutex is taken, manager.url() evaluated and the guard dropped: there
\* is no suspension point in between
GetUrlLock(t) ==
    /\ fpc[t] = "url_lock"
    /\ ManagerFree
    /\ fpc' = [fpc EXCEPT ![t] = "idle"]
    /\ fret' = FRet("get_url", Url(config), None)
    /\ UNCHANGED <<mgrVars, lifeVars, diskVars, pipeVars, ev, argv, host, detect,
                   config, manager, tconfig>>

GetInfoCall(t) ==
    /\ ~dropped
    /\ fpc[t] = "idle"
    /\ fpc' = [fpc EXCEPT ![t] = "info_lock"]
    /\ UNCHANGED <<mgrVars, lifeVars, diskVars, pipeVars, ev, argv, host, detect,
                   config, manager, fret, tconfig>>

GetInfoLock(t) ==
    /\ fpc[t] = "info_lock"
    /\ ManagerFree
    /\ fpc' = [fpc EXCEPT ![t] = "idle"]
    /\ fret' = InfoOrNotFound("get_info")
    /\ UNCHANGED <<mgrVars, lifeVars, diskVars, pipeVars, ev, argv, host, detect,
                   config, manager, tconfig>>

\* TauriVscodeServer::stop, called on its own (op "stop") or as the first
\* step of restart (op "restart")
FacadeStopCall(t, op) ==
    /\ ~dropped
    /\ fpc[t] = "idle"
    /\ fpc' = [fpc EXCEPT ![t] = IF op = "stop" THEN "fstop_lock" ELSE "restart_stop_lock"]
    /\ UNCHANGED <<mgrVars, lifeVars, diskVars, pipeVars, ev, argv, host, detect,
                   config, manager, fret, tconfig>>

FacadeStopLock(t) ==
    /\ fpc[t] \in {"fstop_lock", "restart_stop_lock"}
    /\ ManagerFree
    /\ manager' = t
    /\ fpc' = [fpc EXCEPT ![t] = IF fpc[t] = "fstop_lock" THEN "fstop_call"
                                                         ELSE "restart_stop"]
    /\ ManagerStop(t)
    /\ UNCHANGED <<mgrVars, process, lock, children, child, dropped, diskVars,
                   pipeVars, ev, argv, host, detect, config, fret, tconfig>>

\* manager.stop() has returned to a stop called on its own
FacadeStopReturn(t) ==
    /\ fpc[t] = "fstop_call"
    /\ pc[t] = "idle"
    /\ FacadeReturn(t, FRet("stop", ev.ret, None))
    /\ UNCHANGED <<mgrVars, lifeVars, diskVars, pipeVars, ev, argv, host, detect,
                   config, tconfig>>

IsErrMut(r) == FALSE

\* the ? operator on a Result: anything but Ok(..) is returned to the caller
IsErr(r) == r # "Ok"

\* self.stop().await? inside restart: the Mutex is given back; an error is
\* returned, otherwise the 500 ms sleep begins
RestartStopped(t) ==
    /\ fpc[t] = "restart_stop"
    /\ pc[t] = "idle"
    /\ manager' = NoTask
    /\ IF IsErr(ev.ret)
         THEN /\ fpc' = [fpc EXCEPT ![t] = "idle"]
              /\ fret' = FRet("restart", ev.ret, None)
         ELSE /\ fpc' = [fpc EXCEPT ![t] = "restart_sleep"]
              /\ UNCHANGED fret
    /\ UNCHANGED <<mgrVars, lifeVars, diskVars, pipeVars, ev, argv, host, detect,
                   config, tconfig>>

\* the sleep ends
RestartWake(t) ==
    /\ fpc[t] = "restart_sleep"
    /\ fpc' = [fpc EXCEPT ![t] = "restart_lock"]
    /\ UNCHANGED <<mgrVars, lifeVars, diskVars, pipeVars, ev, argv, host, detect,
                   config, manager, fret, tconfig>>

RestartLock(t) ==
    /\ fpc[t] = "restart_lock"
    /\ ManagerFree
    /\ manager' = t
    /\ fpc' = [fpc EXCEPT ![t] = "restart_start"]
    /\ ManagerStart(t)
    /\ UNCHANGED <<mgrVars, process, lock, children, child, dropped, diskVars,
                   pipeVars, ev, argv, host, detect, config, fret, tconfig>>

RestartReturn(t) ==
    /\ fpc[t] = "restart_start"
    /\ pc[t] = "idle"
    /\ FacadeReturn(t, FRet("restart", ev.ret, None))
    /\ UNCHANGED <<mgrVars, lifeVars, diskVars, pipeVars, ev, argv, host, detect,
                   config, tconfig>>

Next ==
    \/ \E t \in Tasks : StartCall(t)
    \/ \E t \in Tasks : StartLock(t)
    \/ \E t \in Tasks : StartBody(t)
    \/ \E t \in Tasks : StartReturn(t)
    \/ \E t \in Tasks : StopCall(t)
    \/ \E t \in Tasks : StopLock(t)
    \/ \E t \in Tasks : StopBody(t)
    \/ \E t \in Tasks : StopWait(t)
    \/ \E t \in Tasks : IsRunningCall(t)
    \/ \E t \in Tasks : IsRunningLock(t)
    \/ \E t \in Tasks : IsRunningBody(t)
    \/ Drop
    \/ \E c \in 1..MaxSpawn : ChildExits(c)
    \/ \E c \in Commits : ExternalDelete(c)

Spec == Init /\ [][Next]_vars

\* the lifecycle with callers that may leak a suspended start
NextTeardown ==
    \/ Next
    \/ \E t \in Tasks : Forget(t)

SpecTeardown == Init /\ [][NextTeardown]_vars

\* the lifecycle with callers that may cancel a suspended start
NextCancel ==
    \/ Next
    \/ \E t \in Tasks : StartCancel(t)

SpecCancel == Init /\ [][NextCancel]_vars

NextInstall ==
    \/ EnsureCall
    \/ EnsureTags
    \/ EnsureManifest
    \/ \E c \in Commits : DownloadCall(c, current(host))
    \/ DownloadBegin
    \/ DownloadResponse
    \/ DownloadChunk
    \/ DownloadStreamError
    \/ DownloadFinish
    \/ \E c \in Commits : ExternalDelete(c)

SpecInstall == InitInstall /\ [][NextInstall]_vars

\* the pipeline on a tar+gzip build, with callers that may cancel a call and
\* a process that may die at any point of it
NextCrash ==
    \/ NextInstall
    \/ Cancel
    \/ Crash

SpecCrash == InitInstall /\ [][NextCrash]_vars

\* extract_zip is compiled per target_os: one build with it, one without
DownloadHosts == {h \in Hosts : h.arch = "x86_64" /\ h.os \in {"linux", "windows"}}

\* download_server called directly, on a build with or without extract_zip
\* and with a ServerInfo for any platform, into a server_dir that starts out
\* empty
InitDownload ==
    /\ Fresh
    /\ fs = [c \in Commits |-> "absent"]
    /\ host \in DownloadHosts
    /\ DetectIdle /\ ConfigDefault /\ FacadeIdle
    /\ info = None
    /\ server_path = None

NextDownload ==
    \/ \E c \in Commits, p \in Platforms : DownloadCall(c, p)
    \/ DownloadBegin
    \/ DownloadResponse
    \/ DownloadChunk
    \/ DownloadStreamError
    \/ DownloadFinish
    \/ \E c \in Commits : ExternalDelete(c)

SpecDownload == InitDownload /\ [][NextDownload]_vars

\* detect_version called on its own, on a build for any target
InitDetect ==
    /\ Fresh
    /\ fs = [c \in Commits |-> "absent"]
    /\ host \in Hosts
    /\ DetectIdle /\ ConfigDefault /\ FacadeIdle
    /\ info = None
    /\ server_path = None

NextDetect ==
    \/ DetectCall
    \/ DetectTags
    \/ DetectManifest

SpecDetect == InitDetect /\ [][NextDetect]_vars

\* start on a Ready manager built with any configuration
InitArgs ==
    /\ Fresh
    /\ fs = [c \in Commits |-> "good"]
    /\ host = LinuxHost
    /\ DetectIdle /\ FacadeIdle
    /\ config \in Configs
    /\ argv = << >>
    /\ \E c \in Commits : info = c /\ server_path = c

NextArgs ==
    \/ \E t \in Tasks : StartCall(t)
    \/ \E t \in Tasks : StartLock(t)
    \/ \E t \in Tasks : StartBody(t)
    \/ \E t \in Tasks : StartReturn(t)

SpecArgs == InitArgs /\ [][NextArgs]_vars

\* a facade shared by the tasks, over a server_dir in which every commit
\* has a directory (with or without the executable), so that ensure_server
\* never has to download
InitFacade ==
    /\ Fresh
    /\ \E c \in Commits : fs = [d \in Commits |-> IF d = c THEN "good" ELSE "bad"]
    /\ host = LinuxHost
    /\ DetectIdle /\ ConfigDefault
    /\ manager = NoTask
    /\ fpc = [t \in Tasks |-> "idle"]
    /\ fret = [op |-> "none", ret |-> "none", info |-> None]
    /\ tconfig \in [auto_start : BOOLEAN, stop_on_exit : {TRUE}]
    /\ info = None
    /\ server_path = None

NextFacade ==
    \/ \E t \in Tasks : InitializeCall(t)
    \/ \E t \in Tasks : InitializeLock(t)
    \/ \E t \in Tasks : InitializeEnsured(t)
    \/ \E t \in Tasks : InitializeStarted(t)
    \/ \E t \in Tasks : GetUrlCall(t)
    \/ \E t \in Tasks : GetUrlLock(t)
    \/ \E t \in Tasks : GetInfoCall(t)
    \/ \E t \in Tasks : GetInfoLock(t)
    \/ \E t \in Tasks, op \in {"stop", "restart"} : FacadeStopCall(t, op)
    \/ \E t \in Tasks : FacadeStopLock(t)
    \/ \E t \in Tasks : FacadeStopReturn(t)
    \/ \E t \in Tasks : RestartStopped(t)
    \/ \E t \in Tasks : RestartWake(t)
    \/ \E t \in Tasks : RestartLock(t)
    \/ \E t \in Tasks : RestartReturn(t)
    \/ EnsureTags
    \/ EnsureManifest
    \/ \E t \in Tasks : StartLock(t)
    \/ \E t \in Tasks : StartBody(t)
    \/ \E t \in Tasks : StartReturn(t)
    \/ \E t \in Tasks : StopLock(t)
    \/ \E t \in Tasks : StopBody(t)
    \/ \E t \in Tasks : StopWait(t)
    \/ \E c \in 1..MaxSpawn : ChildExits(c)

SpecFacade == InitFacade /\ [][NextFacade]_vars

\* a child that has been signalled terminates
SignalledExits(c) == ChildExits(c) /\ children[c].sig

\* scheduling: a task that can go on does, taking the Mutex included (the
\* tokio Mutex serves its waiters in turn); a request is answered or fails
\* (the client has a timeout); a signalled child exits.
FacadeFairness ==
    /\ \A t \in Tasks :
         /\ WF_vars(InitializeLock(t))
         /\ WF_vars(GetUrlLock(t))
         /\ WF_vars(GetInfoLock(t))
         /\ WF_vars(FacadeStopLock(t))
         /\ WF_vars(RestartLock(t))
         /\ WF_vars(InitializeEnsured(t))
         /\ WF_vars(InitializeStarted(t))
         /\ WF_vars(FacadeStopReturn(t))
         /\ WF_vars(RestartStopped(t))
         /\ WF_vars(RestartWake(t))
         /\ WF_vars(RestartReturn(t))
         /\ WF_vars(StartLock(t))
         /\ WF_vars(StartBody(t))
         /\ WF_vars(StartReturn(t))
         /\ WF_vars(StopLock(t))
         /\ WF_vars(StopBody(t))
         /\ WF_vars(StopWait(t))
    /\ WF_vars(EnsureTags)
    /\ WF_vars(EnsureManifest)
    /\ \A c \in 1..MaxSpawn : WF_vars(SignalledExits(c))

\* where a task stands once it has called a facade operation
Called == {"init_lock", "url_lock", "info_lock", "fstop_lock", "restart_stop_lock"}

\* the facade as new leaves it
NewFacade ==
    /\ Fresh
    /\ argv = << >>
    /\ fret = [op |-> "none", ret |-> "none", info |-> None]
    /\ tconfig \in [auto_start : BOOLEAN, stop_on_exit : {TRUE}]
    /\ info = None
    /\ server_path = None

\* the facade after an initialize with auto_start that resolved commit c,
\* found it installed and started it
Initialized(c) ==
    /\ info = c /\ server_path = c
    /\ process = 1
    /\ lock = NoTask
    /\ children = <<NewChild>>
    /\ pc = [t \in Tasks |-> "idle"]
    /\ child = [t \in Tasks |-> 0]
    /\ dropped = FALSE
    /\ burst = [NoBurst EXCEPT !.on = TRUE, !.spawned = 1]
    /\ archive = {}
    /\ tmp = [d \in Commits |-> NoDir]
    /\ epc = "idle"
    /\ dl = NoDownload
    /\ reqlog = <<"tags", "manifest">>
    /\ downloaded = 0
    /\ dlCalled = FALSE
    /\ lastOk = c
    /\ detail = NoDetail
    /\ status = 0
    /\ found = NoDir
    /\ extractor = None
    /\ ev = Event("start", "Ok")
    /\ argv = CommandArgs(DefaultConfig)
    /\ fret = FRet("initialize", "Ok", c)
    /\ tconfig = DefaultTauri

\* a facade just built, or one whose server runs, over a server_dir as in
\* InitFacade, each task having called one operation, or none
InitFair ==
    /\ \E c \in Commits :
         /\ fs = [d \in Commits |-> IF d = c THEN "good" ELSE "bad"]
         /\ NewFacade \/ Initialized(c)
    /\ host = LinuxHost
    /\ DetectIdle
    /\ config = DefaultConfig
    /\ manager = NoTask
    /\ fpc \in [Tasks -> Called \cup {"idle"}]

\* the operations called run to their end, fairly scheduled
NextFair ==
    \/ \E t \in Tasks : InitializeLock(t)
    \/ \E t \in Tasks : InitializeEnsured(t)
    \/ \E t \in Tasks : InitializeStarted(t)
    \/ \E t \in Tasks : GetUrlLock(t)
    \/ \E t \in Tasks : GetInfoLock(t)
    \/ \E t \in Tasks : FacadeStopLock(t)
    \/ \E t \in Tasks : FacadeStopReturn(t)
    \/ \E t \in Tasks : RestartStopped(t)
    \/ \E t \in Tasks : RestartWake(t)
    \/ \E t \in Tasks : RestartLock(t)
    \/ \E t \in Tasks : RestartReturn(t)
    \/ EnsureTags
    \/ EnsureManifest
    \/ \E t \in Tasks : StartLock(t)
    \/ \E t \in Tasks : StartBody(t)
    \/ \E t \in Tasks : StartReturn(t)
    \/ \E t \in Tasks : StopLock(t)
    \/ \E t \in Tasks : StopBody(t)
    \/ \E t \in Tasks : StopWait(t)
    \/ \E c \in 1..MaxSpawn : ChildExits(c)

SpecFair == InitFair /\ [][NextFair]_vars /\ FacadeFairness

\* the TauriVscodeServer goes out of scope while no operation borrows it: its
\* Arc is the only reference to the manager, whose Drop runs.  Neither the
\* facade nor the manager has code that reads config.stop_on_exit.
FacadeDrop ==
    /\ \A t \in Tasks : fpc[t] = "idle"
    /\ Drop

\* a facade with either value of stop_on_exit, initialized by its callers
\* and then dropped
InitExit ==
    /\ Fresh
    /\ \E c \in Commits : fs = [d \in Commits |-> IF d = c THEN "good" ELSE "bad"]
    /\ host = LinuxHost
    /\ DetectIdle /\ ConfigDefault
    /\ manager = NoTask
    /\ fpc = [t \in Tasks |-> "idle"]
    /\ fret = [op |-> "none", ret |-> "none", info |-> None]
    /\ tconfig \in [auto_start : {TRUE}, stop_on_exit : BOOLEAN]
    /\ info = None
    /\ server_path = None

NextExit ==
    \/ \E t \in Tasks : InitializeCall(t)
    \/ \E t \in Tasks : InitializeLock(t)
    \/ \E t \in Tasks : InitializeEnsured(t)
    \/ \E t \in Tasks : InitializeStarted(t)
    \/ EnsureTags
    \/ EnsureManifest
    \/ \E t \in Tasks : StartLock(t)
    \/ \E t \in Tasks : StartBody(t)
    \/ \E t \in Tasks : StartReturn(t)
    \/ \E c \in 1..MaxSpawn : ChildExits(c)
    \/ FacadeDrop

SpecExit == InitExit /\ [][NextExit]_vars

\* ===================================================================
\* Properties
\* ===================================================================
InCritical(t) ==
    pc[t] \in {"start_body", "start_sleep", "stop_body", "stop_wait", "isrun_body"}

\* task t leaves the position p in this step
Leaves(t, p) == pc[t] = p /\ pc'[t] # p

\* C1: at most one child spawned by the manager is non-terminated at any time.
C1_AtMostOneLiveChild == Cardinality(NonTerminated) <= 1

\* C2 as stated: at most one task is inside a critical section of start, stop
\* or is_running, and once several overlapping start calls on a Ready manager
\* with an empty handle have all returned, exactly one of them has spawned a
\* child and each of the others has failed with AlreadyRunning.
C2_ExactlyOneSpawnsOthersAlreadyRunning ==
    /\ Cardinality({t \in Tasks : InCritical(t)}) <= 1
    /\ (burst.on /\ burst.several /\ AllIdle) =>
           (burst.spawned = 1 /\ ~burst.refused /\ ~burst.other)

\* C2 amended: at most one task is inside a critical section and it is the
\* lock holder; among overlapping start calls on a Ready manager with an empty
\* handle at most one spawns a child, every call that does not spawn fails
\* with AlreadyRunning or, when the operating system refuses its spawn, with
\* StartFailed; and when no spawn was refused exactly one call has spawned.
C2_Serialized ==
    /\ Cardinality({t \in Tasks : InCritical(t)}) <= 1
    /\ \A t \in Tasks : InCritical(t) <=> lock = t
    /\ burst.on => (burst.spawned <= 1 /\ ~burst.other)
    /\ (burst.on /\ AllIdle /\ ~burst.refused) => burst.spawned = 1

C2_Witness ==
    /\ burst.on /\ burst.several /\ AllIdle
    /\ burst.spawned = 1 /\ ~burst.refused
    /\ ev = Event("start", "AlreadyRunning")

\* C3: a start that finds a handle in the slot fails with AlreadyRunning,
\* spawns nothing and leaves the handle in place.
C3_StartWhileRunning ==
    [][\A t \in Tasks :
         (Leaves(t, "start_body") /\ process # Empty) =>
             /\ ev' = Event("start", "AlreadyRunning")
             /\ pc'[t] = "idle"
             /\ process' = process
             /\ children' = children]_vars

C3_Witness ==
    /\ ev = Event("start", "AlreadyRunning")
    /\ process # Empty
    /\ Len(children) = 1

C5_IsRunningProbe ==
    [][\A t \in Tasks :
         /\ Leaves(t, "isrun_body") =>
              /\ pc'[t] = "idle"
              /\ children' = children
              /\ (process # Empty /\ children[process].alive) =>
                     (ev' = Event("is_running", "true") /\ process' = process)
              /\ (process # Empty /\ ~children[process].alive) =>
                     (ev' = Event("is_running", "false") /\ process' = Empty)
              /\ process = Empty =>
                     (ev' = Event("is_running", "false") /\ process' = Empty)
         /\ (Leaves(t, "start_body") /\ process = Empty) =>
              ev'.ret # "AlreadyRunning"]_vars

\* a second child runs after the first one exited without ever being signalled
C5_Witness ==
    /\ Len(children) = 2
    /\ ~children[1].alive /\ ~children[1].sig
    /\ process = 2
    /\ ev = Event("start", "Ok")

\* C6: when stop returns Ok the child it took out has been signalled and has
\* exited, the slot is empty and the lock is free.
C6_StopSuccess ==
    [][\A t \in Tasks :
         (pc[t] \in {"stop_body", "stop_wait"} /\ pc'[t] = "idle"
            /\ ev' = Event("stop", "Ok")) =>
             /\ pc[t] = "stop_wait"
             /\ children'[child[t]].sig
             /\ ~children'[child[t]].alive
             /\ process' = Empty
             /\ lock' = NoTask]_vars

C6_Witness ==
    /\ ev = Event("stop", "Ok")
    /\ process = Empty
    /\ lock = NoTask
    /\ Len(children) = 1
    /\ children[1].sig /\ ~children[1].alive

\* C7: a start that finds the slot empty fails with ServerNotFound when no
\* install path is set or the executable is missing under it; it spawns
\* nothing and the slot stays empty.
C7_StartServerNotFound ==
    [][\A t \in Tasks :
         (Leaves(t, "start_body") /\ process = Empty
            /\ (server_path = None \/ fs[server_path] # "good")) =>
             /\ ev' = Event("start", "ServerNotFound")
             /\ pc'[t] = "idle"
             /\ process' = Empty
             /\ children' = children]_vars

C7_Witness ==
    /\ ev = Event("start", "ServerNotFound")
    /\ server_path # None
    /\ fs[server_path] = "bad"
    /\ process = Empty

\* ensure_server returns in this step
EnsureReturns == epc # "idle" /\ epc' = "idle"

\* C8 as stated: the first of two ensure_server calls in sequence performs
\* network I/O and the second one, with no deletion in between, performs none.
C8_SecondCallNoNetwork ==
    [][EnsureReturns =>
         /\ lastOk = None => Len(reqlog') >= 1
         /\ lastOk # None => Len(reqlog') = 0]_vars

\* C8 amended: every ensure_server call issues the tag-list request first; a
\* call that follows a successful one with no deletion in between issues no
\* download request when the same commit is resolved again, and when it
\* succeeds its only requests are the tag list and the manifest.
C8_SecondCallNoDownload ==
    [][EnsureReturns =>
         /\ Len(reqlog') >= 1 /\ reqlog'[1] = "tags"
         /\ (lastOk # None /\ info' = lastOk) =>
                \A i \in 1..Len(reqlog') : reqlog'[i] # "download"
         /\ (lastOk # None /\ info' = lastOk /\ ev'.ret = "Ok") =>
                reqlog' = <<"tags", "manifest">>]_vars

\* a call that follows a successful one has sent both resolution requests
C8_Witness ==
    /\ epc = "manifest"
    /\ lastOk # None
    /\ reqlog = <<"tags", "manifest">>

\* C9: every ensure_server call resolves the version anew (tag list, then
\* manifest, before info changes or Ok is returned), and it calls
\* download_server exactly when it has resolved a commit whose directory is
\* absent at the check.
C9_ResolveAlwaysFetchIfAbsent ==
    [][/\ epc' # "idle" => (Len(reqlog') >= 1 /\ reqlog'[1] = "tags")
       /\ info' # info => (epc = "manifest" /\ reqlog = <<"tags", "manifest">>)
       /\ (EnsureReturns /\ ev'.ret = "Ok") =>
              (Len(reqlog') >= 2 /\ reqlog'[1] = "tags" /\ reqlog'[2] = "manifest")
       /\ (epc = "manifest" /\ epc' # "manifest") =>
              LET resolved == ~(epc' = "idle" /\ ev'.ret = "Network") IN
              dlCalled' <=> (resolved /\ fs[info'] = "absent")
       /\ (epc # "manifest" /\ epc' # "tags") => dlCalled' = dlCalled]_vars

\* a later call resolves another commit, finds no directory and downloads
C9_Witness ==
    /\ epc = "download"
    /\ dlCalled
    /\ lastOk # None
    /\ info # lastOk

\* C10: download_server called while target_dir/<commit> exists returns Ok at
\* once: no request, nothing transferred, nothing on disk changed.
C10_ExistingDirShortCircuit ==
    [][(dl.pc = "begin" /\ dl'.pc # "begin" /\ fs[dl.commit] # "absent") =>
         /\ ev' = Event("download_server", "Ok")
         /\ dl' = NoDownload
         /\ reqlog' = << >>
         /\ downloaded' = 0
         /\ fs' = fs /\ archive' = archive /\ tmp' = tmp
         /\ info' = info /\ server_path' = server_path]_vars

\* the call returned at once although no directory holds an executable
C10_Witness ==
    /\ ev = Event("download_server", "Ok")
    /\ reqlog = << >>
    /\ dl = NoDownload
    /\ \A c \in Commits : fs[c] = "bad"

\* C11: when ensure_server returns Ok the manager is Ready: the ServerInfo is
\* cached, the install path is that of the resolved commit, and the server
\* executable is on disk under it, so that a following start does not fail
\* with ServerNotFound.
C11_EnsureOkReady ==
    [][(EnsureReturns /\ ev'.ret = "Ok") =>
         /\ info' # None
         /\ server_path' = info'
         /\ ExecutableExists(server_path')]_vars

\* download_server leaves its streaming loop and returns in this step, on a
\* platform whose archive is tar+gzip
TarCallEnds == dl.pc = "stream" /\ dl'.pc = "idle" /\ ~uses_zip(dl.platform)

\* C12 as stated: a tar+gzip extraction that got to count the top-level
\* directories places the content at the commit-keyed path exactly when it
\* counted one; with zero or with two or more it fails with ExtractionFailed
\* naming the count and creates no commit-keyed directory.
C12_ExtractExactlyWhenOneDir ==
    [][(TarCallEnds /\ found' # NoDir) =>
         /\ (found' = 1) <=> (fs[dl.commit] = "absent" /\ fs'[dl.commit] # "absent")
         /\ (found' # 1) =>
                /\ ev'.ret = "ExtractionFailed"
                /\ detail' = Detail("found", found')
                /\ fs' = fs]_vars

\* C12 amended: the content is placed at the commit-keyed path only when the
\* extraction counted exactly one top-level directory; with zero or with two
\* or more it fails with ExtractionFailed naming the count; with exactly one
\* it places the content unless the rename fails, which is an Io error; and
\* whenever the content is not placed the commit-keyed directory is not
\* created.
C12_ExtractOnlyWhenOneDir ==
    [][TarCallEnds =>
         /\ fs'[dl.commit] # "absent" => (found' = 1 /\ fs[dl.commit] = "absent")
         /\ (found' # NoDir /\ found' # 1) =>
                /\ ev'.ret = "ExtractionFailed"
                /\ detail' = Detail("found", found')
         /\ (found' = 1 /\ fs'[dl.commit] = "absent") => ev'.ret = "Io"
         /\ \A c \in Commits : c # dl.commit => fs'[c] = fs[c]]_vars

\* one archive was installed, another was refused for its two directories
C12_Witness ==
    \E c, d \in Commits :
      /\ fs[c] = "good" /\ fs[d] = "absent"
      /\ tmp[d] = 2
      /\ found = 2
      /\ ev = Event("download_server", "ExtractionFailed")
      /\ detail = Detail("found", 2)

\* the download request is answered in this step with a non-success status
RefusedResponse ==
    /\ dl.pc = "get" /\ dl'.pc # "get"
    /\ status' \in Statuses
    /\ status' \notin 200..299

\* C13: when the download request answers with a non-success status,
\* download_server fails with DownloadFailed carrying that status; no archive
\* file has been written, no commit-keyed directory is created, and when
\* ensure_server made the call it returns the same error with the install
\* path left as it was.
C13_StatusFailure ==
    [][RefusedResponse =>
         /\ dl' = NoDownload
         /\ ev'.ret = "DownloadFailed"
         /\ detail' = Detail("status", status')
         /\ archive' = archive /\ downloaded' = 0
         /\ fs' = fs /\ fs'[dl.commit] = "absent" /\ tmp' = tmp
         /\ dl.caller = "ensure" =>
                /\ ev'.op = "ensure_server"
                /\ epc # "idle" /\ epc' = "idle"
                /\ server_path' = server_path
                /\ lastOk' = None
         /\ dl.caller = "direct" => ev'.op = "download_server"]_vars

\* a first ensure_server was refused with status 503 on an empty server_dir
C13_Witness ==
    /\ ev = Event("ensure_server", "DownloadFailed")
    /\ detail = Detail("status", 503)
    /\ status = 503
    /\ archive = {}
    /\ info # None /\ server_path = None
    /\ fs[info] = "absent"

\* C14: one detect_version call issues at most two requests, in order: the
\* tag list, then the manifest of the first tag of the list received; no
\* request is sent twice; and an empty tag list ends the call with
\* VersionDetectionFailed with no manifest request made.
C14_TwoRequestsNoRetry ==
    /\ Len(detect.urls) <= 2
    /\ detect.pc # "idle" => Len(detect.urls) >= 1
    /\ Len(detect.urls) >= 1 => detect.urls[1] = [api |-> "tags", tag |-> None]
    /\ Len(detect.urls) = 2 =>
           /\ detect.listed /\ detect.tags # << >>
           /\ detect.urls[2] = [api |-> "package.json", tag |-> detect.tags[1]]
    /\ detect.pc = "manifest" => Len(detect.urls) = 2
    /\ (detect.listed /\ detect.tags = << >>) =>
           /\ detect.pc = "idle"
           /\ detect.ret = Err("VersionDetectionFailed")
           /\ Len(detect.urls) = 1
    /\ detect.ret.kind = "Ok" => Len(detect.urls) = 2

\* the manifest of the first of two different tags is being fetched
C14_Witness ==
    /\ detect.pc = "manifest"
    /\ Len(detect.tags) = 2
    /\ detect.tags[1] # detect.tags[2]
    /\ Len(detect.urls) = 2
    /\ detect.urls[2].tag = detect.tags[1]

\* C15: a successful detect_version returns a ServerInfo whose api version is
\* the first tag of the list received, whatever the other tags are, whose
\* commit is the one the manifest gave, and whose download URL is the update
\* host followed by "/commit:", that commit, "/", the platform flavor, "/"
\* and the platform's url suffix.
C15_ServerInfoFields ==
    detect.ret.kind = "Ok" =>
        LET i == detect.ret.info
            p == current(host)
        IN  /\ detect.tags # << >>
            /\ i.monaco_api_version = detect.tags[1]
            /\ i.vscode_commit = detect.manifest
            /\ i.vscode_commit \in Commits
            /\ p \in Platforms /\ i.platform = p
            /\ i.download_url =
                   "https://update.code.visualstudio.com" \o "/commit:" \o detect.manifest
                       \o "/" \o server_flavor(p) \o "/"
                       \o (IF p = "Win32X64" THEN "archive" ELSE "stable")
            /\ (host.os = "linux" /\ host.arch = "x86_64" /\ detect.manifest = "c1") =>
                   i.download_url =
                       "https://update.code.visualstudio.com/commit:c1/server-linux-x64/stable"

\* on a windows build, the second tag of the list differs from the first
C15_Witness ==
    /\ detect.ret.kind = "Ok"
    /\ detect.tags = <<"v2.3.0", "v1.0.0">>
    /\ detect.ret.info.monaco_api_version = "v2.3.0"
    /\ detect.ret.info.vscode_commit = "c2"
    /\ detect.ret.info.download_url =
           "https://update.code.visualstudio.com/commit:c2/server-win32-x64/archive"

\* C16: the argument list start builds is, for every configuration:
\* --port <port>, --host <host>; then --disable-telemetry if and only if
\* disable_telemetry is set; then --connection-token <token> when a token is
\* configured and --without-connection-token when none is; then the extra
\* arguments, last and in their given order.
C16_ArgumentList ==
    argv # << >> =>
        LET dt == IF config.disable_telemetry THEN 1 ELSE 0
            tk == IF config.connection_token = << >> THEN 1 ELSE 2
        IN  /\ Len(argv) = 4 + dt + tk + Len(config.args)
            /\ argv[1] = "--port" /\ argv[2] = ToString(config.port)
            /\ config.port = 8001 => argv[2] = "8001"
            /\ argv[3] = "--host" /\ argv[4] = config.host
            /\ config.disable_telemetry => argv[5] = "--disable-telemetry"
            /\ IF config.connection_token = << >>
                 THEN argv[5 + dt] = "--without-connection-token"
                 ELSE /\ argv[5 + dt] = "--connection-token"
                      /\ argv[6 + dt] = config.connection_token[1]
            /\ SubSeq(argv, 5 + dt + tk, Len(argv)) = config.args

\* a child was spawned with telemetry left on, no token, and two extra
\* arguments of which one repeats the no-token flag
C16_Witness ==
    /\ ev = Event("start", "Ok")
    /\ process # Empty
    /\ ~config.disable_telemetry
    /\ config.connection_token = << >>
    /\ config.args = <<"--without-connection-token", "--accept-server-license-terms">>
    /\ Len(argv) = 7

\* C17: of the six platforms only windows-x64 uses zip and every other one
\* tar+gzip; the url suffix is "archive" for the zip platform and "stable"
\* for the others; and at the end of a download the archive file carries the
\* extension of that format and the extractor dispatched is the one of that
\* format.
C17_FormatSuffixExtractor ==
    [][/\ Cardinality(Platforms) = 6
       /\ \A p \in Platforms :
            /\ uses_zip(p) <=> p = "Win32X64"
            /\ url_suffix(p) = IF p = "Win32X64" THEN "archive" ELSE "stable"
       /\ (dl.pc = "stream" /\ extractor' # None) =>
            IF dl.platform = "Win32X64"
              THEN /\ <<dl.commit, "zip">> \in archive
                   /\ extractor' = "extract_zip"
                   /\ tmp' = tmp /\ found' = NoDir
              ELSE /\ <<dl.commit, "tar.gz">> \in archive
                   /\ extractor' = "extract_tar_gz"
                   /\ fs'[dl.commit] # "absent" => found' = 1]_vars

\* on a windows build a zip archive has been extracted into place
C17_Witness ==
    /\ host.os = "windows"
    /\ extractor = "extract_zip"
    /\ found = NoDir
    /\ ev = Event("download_server", "Ok")
    /\ archive = {}
    /\ \E c \in Commits : fs[c] = "good" /\ tmp[c] = NoDir

\* the manager is dropped in this step
Dropping == ~dropped /\ dropped'

\* C18: teardown never blocks: it can run whenever the manager is idle,
\* takes one step, waits for no child to exit and holds no lock afterwards;
\* when the handle lock is free and a handle is present, kill is called on
\* that child (its result is ignored) and the handle is cleared; when the
\* lock is held, nothing is touched and teardown completes all the same.
C18_TeardownNeverBlocks ==
    [][/\ (~dropped /\ AllIdle /\ PipelineIdle) => ENABLED Drop
       /\ Dropping =>
            /\ lock' = lock /\ pc' = pc
            /\ Len(children') = Len(children)
            /\ \A c \in 1..Len(children) :
                 /\ children'[c].alive = children[c].alive
                 /\ c # process => children'[c] = children[c]
            /\ (lock = NoTask /\ process # Empty) =>
                 /\ process' = Empty
                 /\ ev'.ret \in {"killed", "kill_failed"}
                 /\ children'[process].sig <=>
                        (children[process].sig \/ ev'.ret = "killed")
            /\ (lock = NoTask /\ process = Empty) =>
                 (process' = Empty /\ children' = children)
            /\ lock # NoTask =>
                 /\ process' = process
                 /\ children' = children
                 /\ ev'.ret = "skipped"]_vars

\* the manager was dropped while a leaked start held the lock: the child it
\* had spawned was left alone
C18_Witness ==
    /\ dropped
    /\ lock = Leaked
    /\ process # Empty
    /\ children[process].alive /\ ~children[process].sig
    /\ ev = Event("drop", "skipped")

\* C19: facade initialize calls ensure_server first; when ensure_server has
\* returned, start is called exactly when it returned Ok and auto_start is
\* set; an error of ensure_server is returned as it is, with no start; a
\* successful initialize returns the ServerInfo that this ensure_server stored.
C19_InitializeSequence ==
    [][\A t \in Tasks :
         /\ (fpc[t] = "init_lock" /\ fpc'[t] # "init_lock") =>
              /\ fpc'[t] = "init_ensure"
              /\ epc' = "tags"
              /\ pc' = pc
         /\ (pc[t] = "idle" /\ pc'[t] = "start_lock" /\ fpc'[t] = "init_start") =>
              /\ fpc[t] = "init_ensure"
              /\ ev = Event("ensure_server", "Ok")
         /\ (fpc[t] = "init_ensure" /\ fpc'[t] # "init_ensure") =>
              /\ ev.op = "ensure_server"
              /\ (pc'[t] = "start_lock") <=> (ev.ret = "Ok" /\ tconfig.auto_start)
              /\ (ev.ret = "Ok" /\ tconfig.auto_start) => fpc'[t] = "init_start"
              /\ ev.ret # "Ok" =>
                   /\ fpc'[t] = "idle"
                   /\ fret' = FRet("initialize", ev.ret, None)
                   /\ children' = children
              /\ (ev.ret = "Ok" /\ ~tconfig.auto_start) =>
                   /\ fpc'[t] = "idle"
                   /\ info \in Commits /\ info = lastOk
                   /\ fret' = FRet("initialize", "Ok", info)
                   /\ children' = children
         /\ (fpc[t] = "init_start" /\ fpc'[t] # "init_start") =>
              /\ ev.op = "start"
              /\ fpc'[t] = "idle"
              /\ ev.ret # "Ok" => fret' = FRet("initialize", ev.ret, None)
              /\ ev.ret = "Ok" =>
                   /\ info \in Commits /\ info = lastOk
                   /\ fret' = FRet("initialize", "Ok", info)]_vars

\* an initialize with auto_start set has run ensure_server and start and
\* returned the ServerInfo of the server it started
C19_Witness ==
    /\ tconfig.auto_start
    /\ fret = FRet("initialize", "Ok", info)
    /\ info \in Commits
    /\ ev = Event("start", "Ok")
    /\ reqlog = <<"tags", "manifest">>
    /\ process # Empty

\* the tasks inside a call on the manager: in start or stop, or in the
\* ensure_server of an initialize
InManager ==
    {t \in Tasks : pc[t] # "idle" \/ (fpc[t] = "init_ensure" /\ epc # "idle")}

\* the positions of a facade operation between taking the Mutex and
\* giving it back
Holding == {"init_ensure", "init_start", "fstop_call", "restart_stop", "restart_start"}

\* C20: a task is between taking and giving back the facade's Mutex exactly
\* while it holds it, every task inside a manager call holds it, so at most
\* one manager call is in progress; get_url and get_info, whose manager call
\* is a single step, take that step only while nobody holds the Mutex.
C20_OneManagerOperation ==
    /\ [](/\ Cardinality(InManager) <= 1
          /\ \A t \in Tasks : (fpc[t] \in Holding) <=> (manager = t)
          /\ \A t \in InManager : manager = t)
    /\ [][\A t \in Tasks :
            (fpc[t] \in {"url_lock", "info_lock"} /\ fpc'[t] = "idle") =>
               /\ manager = NoTask
               /\ InManager = {}
               /\ fret'.op \in {"get_url", "get_info"}]_vars

\* one caller is inside manager.start() of a restart, holding the Mutex,
\* while another caller waits for the Mutex
C20_Witness ==
    \E t, u \in Tasks :
        /\ t # u
        /\ manager = t
        /\ fpc[t] = "restart_start"
        /\ pc[t] = "start_sleep"
        /\ fpc[u] \in {"init_lock", "url_lock", "info_lock", "fstop_lock",
                       "restart_stop_lock", "restart_lock"}

\* C21: restart runs facade stop, then sleeps, then takes the Mutex again
\* and calls start, in this order; it does not hold the Mutex while it
\* sleeps or waits to take it again; when the stop step returns an error
\* restart returns that error and calls no start.
C21_RestartNotAtomic ==
    /\ [](\A t \in Tasks : fpc[t] \in {"restart_sleep", "restart_lock"} => manager # t)
    /\ [][\A t \in Tasks :
            /\ (fpc[t] = "restart_stop_lock" /\ fpc'[t] # "restart_stop_lock") =>
                 /\ fpc'[t] = "restart_stop"
                 /\ pc'[t] = "stop_lock"
                 /\ manager' = t
            /\ (fpc[t] = "restart_stop" /\ fpc'[t] # "restart_stop") =>
                 /\ ev.op = "stop"
                 /\ manager = t /\ manager' = NoTask
                 /\ pc' = pc
                 /\ ev.ret = "Ok" => fpc'[t] = "restart_sleep"
                 /\ ev.ret # "Ok" =>
                      /\ fpc'[t] = "idle"
                      /\ fret' = FRet("restart", ev.ret, None)
            /\ (fpc[t] = "restart_sleep" /\ fpc'[t] # "restart_sleep") =>
                 fpc'[t] = "restart_lock" /\ pc' = pc
            /\ (fpc[t] = "restart_lock" /\ fpc'[t] # "restart_lock") =>
                 /\ fpc'[t] = "restart_start"
                 /\ manager' = t
                 /\ pc'[t] = "start_lock"
            /\ (fpc'[t] = "restart_start" /\ fpc[t] # "restart_start") =>
                 fpc[t] = "restart_lock"
            /\ (fpc[t] = "restart_start" /\ fpc'[t] # "restart_start") =>
                 /\ ev.op = "start"
                 /\ fpc'[t] = "idle"
                 /\ fret' = FRet("restart", ev.ret, None)]_vars

\* between the stop and the start of one caller's restart another caller is
\* inside manager.start(), having found the handle empty and spawned a child
C21_Witness ==
    \E t, u \in Tasks :
        /\ t # u
        /\ fpc[t] \in {"restart_sleep", "restart_lock"}
        /\ manager = u
        /\ pc[u] = "start_sleep"
        /\ process # Empty

\* download_server, having streamed an archive, returns in this step
FinishReturns == dl.pc = "stream" /\ dl'.pc = "idle" /\ extractor' # None

\* what a download_server that streamed an archive leaves on disk apart from
\* the temporary directory: on Ok the archive file is gone, the commit
\* directory is there and no other commit directory, temporary directory or
\* archive file has changed; on any error the archive file is still there
FinishLeaves ==
    LET c == dl.commit
        a == ArchiveName(dl.commit, dl.platform) IN
    /\ ev'.ret = "Ok" =>
         /\ a \in archive /\ archive' = archive \ {a}
         /\ fs'[c] # "absent"
         /\ \A d \in Commits \ {c} : fs'[d] = fs[d] /\ tmp'[d] = tmp[d]
    /\ ev'.ret # "Ok" => a \in archive' /\ archive' = archive

\* C22 as stated: after a download_server that streamed an archive and
\* returned Ok neither the archive file nor the temporary directory is on
\* disk and only the commit directory was added, and after one that returned
\* an error the archive file is still there.
C22_NoTemporariesRemain ==
    [][FinishReturns =>
         /\ FinishLeaves
         /\ ev'.ret = "Ok" => tmp'[dl.commit] = NoDir]_vars

\* C22 amended: as stated, except that the temporary directory is gone only
\* when removing it succeeded: after an Ok of the tar extractor it is either
\* gone or still there holding no directory, and the zip extractor never
\* touches it.
C22_TemporariesRemoved ==
    [][FinishReturns =>
         /\ FinishLeaves
         /\ (ev'.ret = "Ok" /\ ~uses_zip(dl.platform)) =>
              tmp'[dl.commit] \in {NoDir, 0}
         /\ uses_zip(dl.platform) => tmp' = tmp]_vars

\* a download on a tar+gzip platform has returned Ok; the archive file is
\* gone and the temporary directory is left behind, its removal having failed
C22_Witness ==
    /\ ev = Event("download_server", "Ok")
    /\ extractor = "extract_tar_gz"
    /\ downloaded > 0
    /\ archive = {}
    /\ \E c \in Commits : fs[c] # "absent" /\ tmp[c] = 0

\* C23: no step of a start, stop or is_running call changes the
\* configuration, the cached ServerInfo or the install path, whether the call
\* goes on, returns Ok or returns an error; and no step at all changes the
\* configuration.
C23_HandleOnlyFrame ==
    [][/\ config' = config
       /\ \A t \in Tasks :
            pc'[t] # pc[t] =>
               /\ info' = info
               /\ server_path' = server_path]_vars

\* with a ServerInfo cached and a path set, a start has been refused, a stop
\* has failed or an is_running has cleared a stale handle
C23_Witness ==
    /\ info \in Commits /\ server_path \in Commits
    /\ config = DefaultConfig
    /\ Len(children) > 0
    /\ \/ ev = Event("start", "AlreadyRunning")
       \/ ev = Event("stop", "Io")
       \/ ev = Event("is_running", "false") /\ process = Empty

\* C24 as stated: when the facade is dropped while the handle holds a live
\* child, the child is signalled exactly when stop_on_exit is set.
C24_StopOnExitGoverns ==
    [][(~dropped /\ dropped' /\ process # Empty /\ children[process].alive) =>
         ((ev'.ret \in {"killed", "kill_failed"} /\ process' = Empty)
            <=> tconfig.stop_on_exit)]_vars

\* stop returns to task t in this step
StopReturns(t) == pc[t] \in {"stop_body", "stop_wait"} /\ pc'[t] = "idle"

\* C25: whenever stop returns, with Ok, NotRunning or the Io of a failed
\* kill or wait, the handle slot is empty, the returning call keeps no child
\* and the lock is free; a stop that found a child has moved it out of the
\* slot before its first fallible call.
C25_HandleEmptyAfterStop ==
    [][\A t \in Tasks :
         /\ StopReturns(t) =>
              /\ ev'.op = "stop" /\ ev'.ret \in {"Ok", "NotRunning", "Io"}
              /\ process' = Empty
              /\ child'[t] = 0
              /\ lock' = NoTask
         /\ (pc[t] = "stop_body" /\ pc'[t] # "stop_body" /\ process # Empty) =>
              /\ process' = Empty
              /\ pc'[t] = "idle" => ev'.ret = "Io"
         /\ pc[t] = "stop_wait" => process = Empty]_vars

\* stop has returned Io because the kill failed: the slot is empty while the
\* child it held is still alive
C25_Witness ==
    /\ ev = Event("stop", "Io")
    /\ process = Empty
    /\ lock = NoTask
    /\ \E c \in 1..Len(children) : children[c].alive /\ ~children[c].sig

\* C26: start returns AlreadyRunning exactly when the handle slot is
\* occupied, whether the child in it is alive or not, and spawns nothing
\* then; an occupied slot becomes empty only in a step of stop, of
\* is_running or of the manager's drop.
C26_PresenceNotLiveness ==
    [][/\ \A t \in Tasks :
            (pc[t] = "start_body" /\ pc'[t] # "start_body") =>
               /\ (process # Empty) <=>
                     (pc'[t] = "idle" /\ ev' = Event("start", "AlreadyRunning"))
               /\ process # Empty => process' = process /\ children' = children
       /\ (process # Empty /\ process' = Empty) =>
            \/ \E t \in Tasks : pc[t] \in {"stop_body", "isrun_body"} /\ pc'[t] # pc[t]
            \/ ~dropped /\ dropped']_vars

\* the child exited on its own, nothing has cleared the handle, and a start
\* was refused with AlreadyRunning
C26_Witness ==
    /\ ev = Event("start", "AlreadyRunning")
    /\ process # Empty
    /\ ~children[process].alive
    /\ ~children[process].sig
    /\ AllIdle

\* download_server ends in this step without having renamed anything into
\* place
DownloadAborts ==
    /\ dl.pc # "idle" /\ dl'.pc = "idle"
    /\ fs'[dl.commit] = "absent"

\* C27: on a tar+gzip build a commit directory comes into existence only in
\* the step of the download_server for that commit in which extract_tar_gz
\* counted exactly one directory and renamed it, and is never written
\* afterwards (an outside actor may delete it); a download_server that fails,
\* is cancelled or dies before that rename changes no commit directory,
\* removes no archive file and does not return Ok; and an ensure_server
\* returns Ok for a commit whose directory was absent only after calling
\* download_server and sending the download request.
C27_RenameOnly ==
    [][/\ \A c \in Commits :
            (fs[c] = "absent" /\ fs'[c] # "absent") =>
               /\ dl.pc = "stream" /\ dl.commit = c
               /\ extractor' = "extract_tar_gz"
               /\ found' = 1
               /\ \A d \in Commits \ {c} : fs'[d] = fs[d]
       /\ \A c \in Commits : fs'[c] # fs[c] => fs[c] = "absent" \/ fs'[c] = "absent"
       /\ DownloadAborts =>
            /\ fs' = fs
            /\ archive \subseteq archive'
            /\ ev'.ret # "Ok"
       /\ (epc # "idle" /\ epc' = "idle" /\ ev' = Event("ensure_server", "Ok")) =>
            /\ fs'[info'] # "absent"
            /\ fs[info'] = "absent" =>
                 dlCalled' /\ \E i \in 1..Len(reqlog') : reqlog'[i] = "download"]_vars

\* after the process died while unpacking, leaving the archive file and a
\* temporary directory but no commit directory, a new ensure_server for the
\* same commit is streaming the archive again
C27_Witness ==
    /\ ev = Event("ensure_server", "Crashed")
    /\ epc = "download"
    /\ dl.pc = "stream"
    /\ downloaded > 0
    /\ fs[dl.commit] = "absent"
    /\ tmp[dl.commit] >= 1
    /\ ArchiveName(dl.commit, dl.platform) \in archive

\* C28 as stated: between ensure_server calls, whenever an install path is
\* set a ServerInfo is cached and the path is the directory named by the
\* commit of that ServerInfo.
C28_PathMatchesInfo ==
    (PipelineIdle /\ server_path # None) => (info # None /\ server_path = info)

\* C29: the process-handle lock is only ever held by the holder of the
\* facade's Mutex, and every facade operation a task is in returns.
C29_NoDeadlock ==
    /\ [](lock # NoTask => manager = lock)
    /\ \A t \in Tasks : (fpc[t] # "idle") ~> (fpc[t] = "idle")

\* one caller, holding both locks, waits in stop for the signalled child to
\* exit while another caller waits for the facade's Mutex
C29_Witness ==
    \E t, u \in Tasks :
        /\ t # u
        /\ manager = t /\ lock = t
        /\ pc[t] = "stop_wait"
        /\ children[child[t]].alive
        /\ fpc[u] \in Called

\* the start call of task t is cancelled in this step
Cancelled(t) ==
    /\ pc[t] \in {"start_lock", "start_sleep"}
    /\ pc'[t] = "idle"
    /\ ev'.op = "start"
    /\ ev'.ret \in {"CancelledAtLock", "CancelledInSleep"}

\* C30: a start cancelled while it waits for the lock has spawned nothing and
\* leaves slot, children and lock as they are; a start cancelled in its sleep
\* leaves the child it spawned in the slot and the lock free; and the lock is
\* never held by a task that is not inside a call.
C30_CancelConsistent ==
    /\ [](\A t \in Tasks : lock = t => pc[t] \notin {"idle", "start_lock", "stop_lock", "isrun_lock"})
    /\ [][\A t \in Tasks :
            Cancelled(t) =>
               /\ process' = process
               /\ children' = children
               /\ pc[t] = "start_lock" => lock # t /\ lock' = lock
               /\ pc[t] = "start_sleep" =>
                    /\ lock = t /\ lock' = NoTask
                    /\ process' = Len(children)
                    /\ process' # Empty]_vars

\* after a start was cancelled in its sleep, a stop has taken the child that
\* start spawned out of the slot and signalled it
C30_Witness ==
    /\ ev = Event("start", "CancelledInSleep")
    /\ Len(children) = 1
    /\ \E u \in Tasks :
         /\ pc[u] = "stop_wait"
         /\ child[u] = 1
         /\ children[1].sig

====
